---------------------------- MODULE Spec2Model ----------------------------
(***************************************************************************)
(* Model of the rastion-hub registry API (src/api/main.py, auth.py,        *)
(* models.py, database.py): the metadata tables, the blob filesystem and   *)
(* the request handlers, each handler split at the points where another    *)
(* request, or a failure, can come between two of its statements.          *)
(***************************************************************************)
EXTENDS Integers, Sequences, FiniteSets, TLC

(***************************************************************************)
(* Bounds of the model (not program constants).                            *)
(***************************************************************************)
\* uploads that get past the uniqueness check, in SpecLife
MaxCreates == 2
\* the same, in Spec
MaxAllCreates == 1
\* the same, in SpecDownload and SpecRate
MaxCountCreates == 1
\* the same, in SpecRace
MaxRaceCreates == 2
\* downloads of one artifact, in SpecDownload
MaxDownloads == 3
\* ratings of one artifact, in SpecRate
MaxRatings == 2
\* downloads, and ratings, of one artifact, in Spec
MaxAllCounts == 1
\* wall clock: ticks per second, the lifetime of a session token in seconds
\* (ACCESS_TOKEN_EXPIRE_MINUTES), session tokens issued in SpecToken
TicksPerSecond == 2
ExpireSeconds == 1
MaxTokens == 2
\* uploads that get past the uniqueness check, in SpecVersions
MaxVersionCreates == 2
\* uploads that get past the uniqueness check, in SpecList
MaxListCreates == 3
\* uploads that get past the uniqueness check, and the value the download
\* counter of an artifact reaches, in SpecFetch
MaxFetchCreates == 2
MaxFetchDownloads == 2
\* uploads that get past the uniqueness check, and the value a counter
\* reaches, in SpecDownloadRace and SpecRateRace
MaxCounterRaceCreates == 1
MaxRaceDownloads == 2
MaxRaceRatings == 2
\* uploads that get past the uniqueness check, and the value a rating count
\* reaches, in SpecKind
MaxKindCreates == 2
MaxKindRatings == 1
\* uploads that get past the uniqueness check, in SpecBackfill
MaxBackfillCreates == 2
\* uploads that get past the uniqueness check, in SpecDeleteFail
MaxDeleteFailCreates == 2
\* uploads that get past the uniqueness check, and the value a counter
\* reaches, in SpecNamespaces
MaxNamespaceCreates == 2
MaxNamespaceCounts == 1

(***************************************************************************)
(* Finite input domains.                                                   *)
(***************************************************************************)
\* request workers whose handlers can interleave
Procs == {"p1", "p2"}
\* the two artifact tables, named as build_archive_path is called
Kinds == {"problems", "solvers"}
\* local user ids (User.id); NoUser is the absence of a resolved caller
UserIds == {"u1", "u2"}
NoUser == "nobody"
\* bearer credentials of a request: absent, rejected, or resolving to a user
Creds == {"none", "bad", "tok-u1", "tok-u2"}
\* names and versions as character sequences; the two names differ only in
\* a character that sanitize_name replaces
Names == {<<"a", " ", "b">>, <<"a", "-", "b">>}
Versions == {<<"1">>, <<"2">>}
\* the names and versions used where the claims do not turn on them
PlainNames == {<<"a", " ", "b">>}
PlainVersions == {<<"1">>}
\* descriptions of an upload; the one the specifications use that do not
\* look at descriptions
Descriptions == {<<"d">>, <<"e">>}
PlainDescription == <<"d">>
\* artifact ids a request may name
ItemIds == 1..3
\* scores a Rate request may carry (inside RatePayload's range)
Scores == {2, 5}
\* scores as a client may send them, inside and outside the accepted range
RateScores == {-1, 2, 5, 6}
\* item_type strings of a Rate request
ItemTypes == {<<"benchmarks">>, <<"problem">>, <<"solver">>, <<"widget">>}
\* the store behind DATABASE_URL
Stores == {"sqlite", "postgres"}

\* a text field that is absent (None)
Missing == <<"<none>">>

\* the upstream ids, logins and avatars the identity provider may report
GithubIds == {1, 2}
Logins == {Missing, <<" ">>, <<" ", "a">>, <<"github-id-", "2">>}
Avatars == {Missing, <<"p">>}

(***************************************************************************)
(* sanitize_name and build_archive_path.                                   *)
(***************************************************************************)
\* the members of [a-zA-Z0-9._-] among the characters of the model
SafeChars == {"a", "b", "1", "2", ".", "_", "-"}
WhitespaceChars == {" "}

RECURSIVE LStrip(_, _)
LStrip(s, cs) ==
    IF s # <<>> /\ Head(s) \in cs THEN LStrip(Tail(s), cs) ELSE s

RECURSIVE RStrip(_, _)
RStrip(s, cs) ==
    IF s # <<>> /\ s[Len(s)] \in cs
    THEN RStrip(SubSeq(s, 1, Len(s) - 1), cs)
    ELSE s

Strip(s, cs) == RStrip(LStrip(s, cs), cs)

RECURSIVE DropUnsafe(_)
DropUnsafe(s) ==
    IF s # <<>> /\ Head(s) \notin SafeChars THEN DropUnsafe(Tail(s)) ELSE s

\* SAFE_NAME_RE.sub("-", s): every maximal run of unsafe characters becomes "-"
RECURSIVE SafeNameSub(_)
SafeNameSub(s) ==
    IF s = <<>> THEN <<>>
    ELSE IF Head(s) \in SafeChars
         THEN <<Head(s)>> \o SafeNameSub(Tail(s))
         ELSE <<"-">> \o SafeNameSub(DropUnsafe(Tail(s)))

sanitize_name(raw) ==
    LET cleaned == Strip(SafeNameSub(Strip(raw, WhitespaceChars)), {"-", "."})
    IN  IF cleaned = <<>> THEN <<"i", "t", "e", "m">> ELSE cleaned

\* mutant: one directory for both kinds
build_archive_path_one_base(item_type, user_id, name, version) ==
    <<"PROBLEMS_DIR", user_id, sanitize_name(name), sanitize_name(version) \o <<".zip">>>>

build_archive_path(item_type, user_id, name, version) ==
    LET base == IF item_type = "problems" THEN "PROBLEMS_DIR" ELSE "SOLVERS_DIR"
    IN  <<base, user_id, sanitize_name(name), sanitize_name(version) \o <<".zip">> >>

(***************************************************************************)
(* Category inference.  A text is a sequence of words and blanks; a word   *)
(* holds the rule token of its name, in upper or lower case, and no other. *)
(***************************************************************************)
PROBLEM_CATEGORY_RULES ==
    << <<"calendar", "Scheduling">>, <<"schedule", "Scheduling">>,
       <<"planner", "Scheduling">>, <<"planning", "Scheduling">>,
       <<"timetable", "Scheduling">>, <<"workload", "Scheduling">>,
       <<"knapsack", "Combinatorial">>, <<"set_cover", "Combinatorial">>,
       <<"packing", "Combinatorial">>, <<"maxcut", "Graph">>, <<"graph", "Graph">>,
       <<"portfolio", "Portfolio">>, <<"tsp", "Routing">>, <<"route", "Routing">>,
       <<"vehicle", "Routing">>, <<"facility", "Routing">> >>

SOLVER_CATEGORY_RULES ==
    << <<"qubo", "QUBO">>, <<"qaoa", "Quantum">>, <<"quantum", "Quantum">>,
       <<"neal", "QUBO">>, <<"tabu", "Heuristic">>, <<"grasp", "Heuristic">>,
       <<"heuristic", "Heuristic">>, <<"baseline", "Heuristic">>,
       <<"highs", "MILP">>, <<"ortools", "MILP">>, <<"scip", "MILP">>,
       <<"mip", "MILP">>, <<"milp", "MILP">>, <<"qp", "QP">> >>

\* str.lower(), word by word
LowerWord(w) ==
    CASE w = "TSP" -> "tsp"
      [] w = "QUBO" -> "qubo"
      [] w = "MILP" -> "milp"
      [] w = "Graph" -> "graph"
      [] w = "A" -> "a"
      [] w = "B" -> "b"
      [] w = "D" -> "d"
      [] w = "Problems" -> "problems"
      [] w = "SOLVER" -> "solver"
      [] OTHER -> w

Lower(text) == [i \in 1..Len(text) |-> LowerWord(text[i])]

\* None (Missing) for None and for a text that is blank
normalize_optional_text(value) ==
    IF value = Missing THEN Missing
    ELSE IF Strip(value, WhitespaceChars) = <<>> THEN Missing
    ELSE Strip(value, WhitespaceChars)

\* str(payload.get(key, "") or "")
PayloadText(value) == IF value = Missing THEN <<>> ELSE value

\* token in haystack
Contains(haystack, token) == \E i \in 1..Len(haystack) : haystack[i] = token

\* mutant: the last rule whose token occurs wins
RECURSIVE LastRule(_, _)
LastRule(rules, haystack) ==
    IF rules = <<>> THEN <<"General">>
    ELSE IF Contains(haystack, rules[Len(rules)][1]) THEN <<rules[Len(rules)][2]>>
    ELSE LastRule(SubSeq(rules, 1, Len(rules) - 1), haystack)

\* for token, category in rules: the first rule whose token occurs
RECURSIVE FirstRule(_, _)
FirstRule(rules, haystack) ==
    IF rules = <<>> THEN <<"General">>
    ELSE IF Contains(haystack, Head(rules)[1]) THEN <<Head(rules)[2]>>
    ELSE FirstRule(Tail(rules), haystack)

\* the category an optimization_class hint stands for, Missing for none
ClassCategory(manifest) ==
    LET optimization_class == normalize_optional_text(PayloadText(manifest.optimization_class))
        lowered == IF optimization_class = Missing THEN <<>> ELSE Lower(optimization_class)
    IN  IF lowered \in {<<"milp">>, <<"mip">>} THEN <<"Scheduling">>
        ELSE IF lowered = <<"qubo">> THEN <<"Graph">>
        ELSE IF lowered = <<"qp">> THEN <<"Portfolio">>
        ELSE Missing

\* mutant: the manifest's category is not looked at
explicit_ignored(manifest) == Missing

\* explicit = normalize_optional_text(str(payload.get("category", "") or ""))
explicit(manifest) == normalize_optional_text(PayloadText(manifest.category))

infer_category(item_type, name, description, manifest) ==
    IF explicit(manifest) # Missing THEN explicit(manifest)
    ELSE IF item_type = "problem" /\ ClassCategory(manifest) # Missing
    THEN ClassCategory(manifest)
    ELSE FirstRule(IF item_type = "problem" THEN PROBLEM_CATEGORY_RULES
                   ELSE SOLVER_CATEGORY_RULES,
                   Lower(name \o <<" ">> \o description))

(***************************************************************************)
(* Exact arithmetic for the running average: a rating is a fraction        *)
(* <<numerator, denominator>> in lowest terms.                             *)
(***************************************************************************)
RECURSIVE Gcd(_, _)
Gcd(a, b) == IF b = 0 THEN a ELSE Gcd(b, a % b)

Frac(n, d) ==
    LET g == Gcd(n, d) IN IF g = 0 THEN <<0, 1>> ELSE <<n \div g, d \div g>>

\* mutant: the new score replaces the average
RunningAverageLastOnly(current_score, count, rating) == Frac(rating, 1)

\* ((current_score * count) + rating) / (count + 1)
RunningAverage(current_score, count, rating) ==
    Frac(current_score[1] * count + rating * current_score[2],
         current_score[2] * (count + 1))

(***************************************************************************)
(* State.                                                                  *)
(***************************************************************************)
VARIABLES
    store,      \* which store DATABASE_URL names
    rows,       \* rows[k]: the committed Problem / Solver rows
    versions,   \* versions[k]: the committed ProblemVersion / SolverVersion rows
    fs,         \* the blob filesystem: the files that exist, [path, data]
    idseq,      \* idseq[k]: last value of the id sequence (postgres)
    clock,      \* number of uploads stamped so far (datetime.utcnow())
    proc,       \* proc[p]: the request worker p is serving, and where it is
    deleted,    \* history: deleted[k] holds the ids whose Delete has committed
    hist,       \* history: per living artifact (by created_at), the downloads
                \* served and the scores rated, in order
    users,      \* the committed User rows
    areq,       \* areq[p]: the authentication request worker p is serving
    now,        \* the wall clock, in ticks
    wallet,     \* history: the session tokens issued, with holder and issue time
    cat,        \* a call of infer_category: its arguments and its result
    dirs        \* the directories that exist under the storage roots

\* the state of the authentication core
authvars == <<users, areq, now, wallet>>

\* the state of the registry
regvars == <<store, rows, versions, fs, idseq, clock, proc, deleted, hist, dirs>>

vars == <<store, rows, versions, fs, idseq, clock, proc, deleted, hist,
          users, areq, now, wallet, cat, dirs>>

\* PROBLEMS_DIR, SOLVERS_DIR: on_startup makes them
Root(kind) == <<IF kind = "problems" THEN "PROBLEMS_DIR" ELSE "SOLVERS_DIR">>
Roots == {Root(k) : k \in Kinds}

Idle ==
    [pc |-> "idle", op |-> "none", res |-> "none", cred |-> "none",
     kind |-> "none", caller |-> NoUser, id |-> 0, name |-> <<>>,
     version |-> <<>>, stamp |-> 0, path |-> <<>>, at |-> "none",
     n |-> 0, avg |-> <<0, 1>>, score |-> 0, description |-> <<>>,
     category |-> <<>>, q |-> <<>>, page |-> 0, page_size |-> 0,
     items |-> <<>>, total |-> 0, item_type |-> <<>>]

\* no credential, no token
NoToken == [kind |-> "none", sub |-> <<>>, exp |-> 0, sig |-> "none"]

\* no response of the identity provider yet
NoResponse ==
    [net |-> FALSE, status |-> 0, json |-> FALSE, err |-> FALSE, token |-> Missing,
     id |-> 0, login |-> Missing, avatar |-> Missing]

AuthIdle ==
    [pc |-> "idle", op |-> "none", status |-> 0, token |-> NoToken, calls |-> 0,
     resp |-> NoResponse, found |-> 0, user |-> 0, issued |-> NoToken]

\* an empty users table, every worker free
AuthInit ==
    /\ users = {}
    /\ areq = [p \in Procs |-> AuthIdle]
    /\ now = 0
    /\ wallet = {}

\* parse_manifest of no manifest, or of one that is not a JSON object: {}
NoManifest == [category |-> Missing, optimization_class |-> Missing]

\* no call of infer_category
NoCall ==
    [pc |-> "none", item_type |-> "none", name |-> <<>>, description |-> <<>>,
     manifest |-> NoManifest, category |-> Missing]

Init ==
    /\ AuthInit
    /\ cat = NoCall
    /\ store \in Stores
    /\ rows = [k \in Kinds |-> {}]
    /\ versions = [k \in Kinds |-> {}]
    /\ fs = {}
    /\ idseq = [k \in Kinds |-> 0]
    /\ clock = 0
    /\ proc = [p \in Procs |-> Idle]
    /\ deleted = [k \in Kinds |-> {}]
    /\ hist = {}
    /\ dirs = Roots

\* a Problem row as an installation older than the version tables holds it
LegacyRow ==
    [id |-> 1, owner_id |-> "u1", name |-> <<"a", " ", "b">>, version |-> <<"1">>,
     download_count |-> 0, rating |-> <<0, 1>>, rating_count |-> 0,
     created_at |-> 0, description |-> <<"d">>, category |-> Missing]

\* Startup on the database of such an installation: create_all adds the
\* version tables, empty, next to the artifact rows that are there; the blob
\* of the old row lies at its deterministic path.
InitLegacy ==
    /\ AuthInit
    /\ cat = NoCall
    /\ store \in Stores
    /\ rows = [k \in Kinds |-> IF k = "problems" THEN {LegacyRow} ELSE {}]
    /\ versions = [k \in Kinds |-> {}]
    /\ fs = {[path |-> build_archive_path("problems", LegacyRow.owner_id,
                                           LegacyRow.name, LegacyRow.version),
              data |-> 0]}
    /\ idseq = [k \in Kinds |-> IF k = "problems" THEN 1 ELSE 0]
    /\ clock = 0
    /\ proc = [p \in Procs |-> Idle]
    /\ deleted = [k \in Kinds |-> {}]
    /\ hist = {[stamp |-> 0, served |-> 0, scores |-> <<>>]}
    /\ dirs = Roots \cup {<<"PROBLEMS_DIR">>, <<"PROBLEMS_DIR", LegacyRow.owner_id>>,
                         <<"PROBLEMS_DIR", LegacyRow.owner_id, sanitize_name(LegacyRow.name)>>}

(***************************************************************************)
(* Helpers over the tables and the filesystem.                             *)
(***************************************************************************)
Max(S) == IF S = {} THEN 0 ELSE CHOOSE x \in S : \A y \in S : y <= x

\* Path.exists()
\* the directory a path lies in; the filesystem root is its own parent
Parent(path) == IF path = <<>> THEN <<>> ELSE SubSeq(path, 1, Len(path) - 1)

\* destination.parent.mkdir(parents=True, exist_ok=True): the directories
\* above a blob path, from the storage root down
Parents(path) == {SubSeq(path, 1, i) : i \in 1..(Len(path) - 1)}

\* current.rmdir() succeeds: the directory exists and holds nothing
Removable(ds, files, current) ==
    /\ current \in ds
    /\ \A f \in files : Parent(f.path) # current
    /\ \A d \in ds : d = <<>> \/ Parent(d) # current

\* the loop of trim_empty_parents: the directories left
RECURSIVE trim_empty_parents(_, _, _, _)
trim_empty_parents(ds, files, current, stop) ==
    IF current = stop \/ current = Parent(current) THEN ds
    ELSE IF Removable(ds, files, current)
    THEN trim_empty_parents(ds \ {current}, files, Parent(current), stop)
    ELSE ds

Exists(path) == \E f \in fs : f.path = path

\* destination.open("wb") + copyfileobj: the file at path now holds data
WriteFile(files, path, data) ==
    {f \in files : f.path # path} \cup {[path |-> path, data |-> data]}

remove_file_if_exists(files, path) == {f \in files : f.path # path}

\* None (here <<>>) unless the recorded path names a file that exists
archive_path_from_record(record_path) ==
    IF record_path = <<>> THEN <<>>
    ELSE IF Exists(record_path) THEN record_path ELSE <<>>

\* db.query(Model).filter(Model.id == id).first(): the set holds 0 or 1 rows
ById(kind, id) == {r \in rows[kind] : r.id = id}

Finish(p, rec) == proc' = [proc EXCEPT ![p] = [rec EXCEPT !.pc = "done"]]

Goto(p, rec, pc) == proc' = [proc EXCEPT ![p] = [rec EXCEPT !.pc = pc]]

(***************************************************************************)
(* Authentication, as the registry sees it: a credential resolves to a     *)
(* User or the request ends with 401.                                      *)
(***************************************************************************)
authenticate_token(token) ==
    CASE token = "tok-u1" -> "u1"
      [] token = "tok-u2" -> "u2"
      [] OTHER -> NoUser

get_current_user(cred) ==
    IF cred = "none" THEN NoUser ELSE authenticate_token(cred)

(***************************************************************************)
(* Create: upload_problem / upload_solver.                                 *)
(***************************************************************************)
\* mutant: the uniqueness query compares the version column with the name
existingWrongColumn(kind, owner_id, name, version) ==
    {r \in rows[kind] :
        r.owner_id = owner_id /\ r.name = name /\ r.version = name}

\* the rows the uniqueness query returns
existing(kind, owner_id, name, version) ==
    {r \in rows[kind] :
        r.owner_id = owner_id /\ r.name = name /\ r.version = version}

\* the id the store gives a flushed row: SQLite's rowid is one more than the
\* largest in the table, a Postgres sequence never goes back
NextId(kind) ==
    IF store = "sqlite"
    THEN Max({r.id : r \in rows[kind]}) + 1
    ELSE idseq[kind] + 1

\* the literal upload_problem and upload_solver pass to infer_category
ItemType(kind) == IF kind = "problems" THEN "problem" ELSE "solver"

\* normalize_optional_text(category) or infer_category(...)
normalized_category(kind, name, description, category, manifest) ==
    IF normalize_optional_text(category) # Missing
    THEN normalize_optional_text(category)
    ELSE infer_category(ItemType(kind), name, description, manifest)

\* dependencies, the category, ensure_zip, the uniqueness query, the path and
\* the timestamp
CreateBegin(p, cred, kind, name, version, description, category, manifest, is_zip) ==
    /\ proc[p].pc = "idle"
    /\ LET u == get_current_user(cred)
           req == [Idle EXCEPT !.op = "create", !.cred = cred]
       IN  IF u = NoUser
           THEN /\ Finish(p, [req EXCEPT !.res = "Unauthenticated"])
                /\ UNCHANGED clock
           ELSE IF ~is_zip
           THEN /\ Finish(p, [req EXCEPT !.res = "BadRequest", !.caller = u])
                /\ UNCHANGED clock
           ELSE IF existing(kind, u, name, version) # {}
           THEN /\ Finish(p, [req EXCEPT !.res = "Conflict", !.caller = u,
                                         !.kind = kind, !.name = name,
                                         !.version = version])
                /\ UNCHANGED clock
           ELSE /\ Goto(p, [req EXCEPT !.caller = u, !.kind = kind,
                                       !.name = name, !.version = version,
                                       !.description = description,
                                       !.category = normalized_category(kind, name, description, category, manifest),
                                       !.stamp = clock + 1,
                                       !.path = build_archive_path(kind, u, name, version)],
                        "persist")
                /\ clock' = clock + 1
    /\ UNCHANGED <<authvars, cat, dirs, store, deleted, hist, rows, versions, fs, idseq>>

\* persist_upload(file, archive_path)
CreatePersist(p) ==
    /\ proc[p].pc = "persist"
    /\ dirs' = dirs \cup Parents(proc[p].path)
    /\ fs' = WriteFile(fs, proc[p].path, proc[p].stamp)
    /\ Goto(p, proc[p], "flush")
    /\ UNCHANGED <<authvars, cat, store, deleted, hist, rows, versions, idseq, clock>>

\* db.add(problem); db.flush(): the INSERT runs and the id is known.  SQLite
\* has one writer at a time: the INSERT waits while another upload holds an
\* uncommitted one.
CreateFlush(p) ==
    /\ proc[p].pc = "flush"
    /\ store = "sqlite" => \A q \in Procs \ {p} : proc[q].pc # "commit"
    /\ Goto(p, [proc[p] EXCEPT !.id = NextId(proc[p].kind)], "commit")
    /\ idseq' = IF store = "sqlite" THEN idseq
                ELSE [idseq EXCEPT ![proc[p].kind] = @ + 1]
    /\ UNCHANGED <<authvars, cat, dirs, store, deleted, hist, rows, versions, fs, clock>>

NewRow(r) ==
    [id |-> r.id, owner_id |-> r.caller, name |-> r.name, version |-> r.version,
     download_count |-> 0, rating |-> <<0, 1>>, rating_count |-> 0,
     created_at |-> r.stamp, description |-> r.description,
     category |-> r.category]

\* mutant: the version row is written without the description
NewVersionBare(r) ==
    [artifact_id |-> r.id, version |-> r.version, file_path |-> r.path,
     created_at |-> r.stamp, description |-> <<>>]

NewVersion(r) ==
    [artifact_id |-> r.id, version |-> r.version, file_path |-> r.path,
     created_at |-> r.stamp, description |-> r.description]

\* db.add(version_record); db.commit()
CreateCommit(p) ==
    /\ proc[p].pc = "commit"
    /\ rows' = [rows EXCEPT ![proc[p].kind] = @ \cup {NewRow(proc[p])}]
    /\ versions' = [versions EXCEPT ![proc[p].kind] = @ \cup {NewVersion(proc[p])}]
    /\ Finish(p, [proc[p] EXCEPT !.res = "Created"])
    /\ hist' = hist \cup {[stamp |-> proc[p].stamp, served |-> 0, scores |-> <<>>]}
    /\ UNCHANGED <<authvars, cat, dirs, store, deleted, fs, idseq, clock>>

\* mutant: the except branch forgets the blob
CreateCleanupSkipped(files, path) == files

\* what the except branch does to the filesystem
CreateCleanup(files, path) == remove_file_if_exists(files, path)

\* any statement of the try block raises: db.rollback(), then
\* remove_file_if_exists(archive_path), then the exception goes to the caller;
\* persist_upload may have failed before or after its mkdir
CreateFail(p) ==
    /\ proc[p].pc \in {"persist", "flush", "commit"}
    /\ fs' = CreateCleanup(fs, proc[p].path)
    /\ IF proc[p].pc = "persist"
       THEN dirs' \in {dirs, dirs \cup Parents(proc[p].path)}
       ELSE UNCHANGED dirs
    /\ Finish(p, [proc[p] EXCEPT !.res = "InternalError", !.at = proc[p].pc])
    /\ UNCHANGED <<authvars, cat, store, deleted, hist, rows, versions, idseq, clock>>

\* the response is sent: the worker is free again
Return(p) ==
    /\ proc[p].pc = "done"
    /\ proc' = [proc EXCEPT ![p] = Idle]
    /\ UNCHANGED <<authvars, cat, dirs, store, deleted, hist, rows, versions, fs, idseq, clock>>

(***************************************************************************)
(* Get: get_problem / get_solver.                                          *)
(***************************************************************************)
Get(p, kind, id) ==
    /\ proc[p].pc = "idle"
    /\ LET req == [Idle EXCEPT !.op = "get", !.kind = kind, !.id = id]
       IN  IF ById(kind, id) = {}
           THEN Finish(p, [req EXCEPT !.res = "NotFound"])
           ELSE Finish(p, [req EXCEPT !.res = "OK"])
    /\ UNCHANGED <<authvars, cat, dirs, store, deleted, hist, rows, versions, fs, idseq, clock>>

(***************************************************************************)
(* Download: download_problem / download_solver.  No dependency on         *)
(* get_current_user: the credential of the request is never read.          *)
(***************************************************************************)
\* the version rows of the artifact that carry its current version label
MatchingVersions(kind, item) ==
    {v \in versions[kind] :
        v.artifact_id = item.id /\ v.version = item.version}

\* .order_by(created_at.desc()).first(): the recorded path, <<>> for no record
NewestRecordPath(kind, item) ==
    LET vs == MatchingVersions(kind, item)
    IN  IF vs = {} THEN <<>>
        ELSE (CHOOSE v \in vs : \A w \in vs : w.created_at <= v.created_at).file_path

\* mutant: no fallback to the deterministic path
ResolveArchiveRecordOnly(kind, item) ==
    archive_path_from_record(NewestRecordPath(kind, item))

ResolveArchive(kind, item) ==
    LET from_record == archive_path_from_record(NewestRecordPath(kind, item))
    IN  IF from_record = <<>>
        THEN build_archive_path(kind, item.owner_id, item.name, item.version)
        ELSE from_record

DownloadBegin(p, cred, kind, id) ==
    /\ proc[p].pc = "idle"
    /\ LET req == [Idle EXCEPT !.op = "download", !.cred = cred,
                               !.kind = kind, !.id = id]
       IN  IF ById(kind, id) = {}
           THEN Finish(p, [req EXCEPT !.res = "NotFound"])
           ELSE LET item == CHOOSE r \in ById(kind, id) : TRUE
                    archive_path == ResolveArchive(kind, item)
                IN  IF ~Exists(archive_path)
                    THEN Finish(p, [req EXCEPT !.res = "NotFound", !.at = "archive"])
                    ELSE Goto(p, [req EXCEPT !.n = item.download_count,
                                             !.stamp = item.created_at,
                                             !.path = archive_path],
                              "dl_commit")
    /\ UNCHANGED <<authvars, cat, dirs, store, deleted, hist, rows, versions, fs, idseq, clock>>

\* mutant: the counter is written back as it was loaded
IncrementedNot(n) == n

\* problem.download_count += 1 on the loaded object
Incremented(n) == n + 1

\* db.add(problem); db.commit(): UPDATE ... SET download_count = <loaded + 1>
\* WHERE id = <id>; a row deleted meanwhile makes the flush fail
DownloadCommit(p) ==
    /\ proc[p].pc = "dl_commit"
    /\ LET kind == proc[p].kind
           hit == ById(kind, proc[p].id)
       IN  IF hit = {}
           THEN /\ Finish(p, [proc[p] EXCEPT !.res = "InternalError"])
                /\ UNCHANGED <<rows, hist>>
           ELSE /\ rows' = [rows EXCEPT ![kind] =
                               {IF r \in hit
                                THEN [r EXCEPT !.download_count = Incremented(proc[p].n)]
                                ELSE r : r \in @}]
                /\ hist' = {IF h.stamp = proc[p].stamp
                             THEN [h EXCEPT !.served = @ + 1] ELSE h : h \in hist}
                /\ Finish(p, [proc[p] EXCEPT !.res = "OK"])
    /\ UNCHANGED <<authvars, cat, dirs, store, deleted, versions, fs, idseq, clock>>

(***************************************************************************)
(* Delete: delete_problem / delete_solver.                                 *)
(***************************************************************************)
VersionsOf(kind, id) == {v \in versions[kind] : v.artifact_id = id}

\* mutant: Delete leaves the blobs where they are
DeleteTargetsNone(kind, item) == {}

\* the version blobs that exist, or the fallback path when none does
DeleteTargets(kind, item) ==
    LET found == {archive_path_from_record(v.file_path) : v \in VersionsOf(kind, item.id)}
                     \ {<<>>}
    IN  IF found = {}
        THEN {build_archive_path(kind, item.owner_id, item.name, item.version)}
        ELSE found

\* mutant: the owner check is missing
IsOwnerAnyone(item, user) == TRUE

\* the caller may delete the item
IsOwner(item, user) == item.owner_id = user

\* fallback_archive = build_archive_path(kind, owner_id, name, version)
fallback_archive(kind, item) ==
    build_archive_path(kind, item.owner_id, item.name, item.version)

\* dependencies, the lookup, the owner check and the removal of the blobs
DeleteBegin(p, cred, kind, id) ==
    /\ proc[p].pc = "idle"
    /\ LET u == get_current_user(cred)
           req == [Idle EXCEPT !.op = "delete", !.cred = cred]
       IN  IF u = NoUser
           THEN /\ Finish(p, [req EXCEPT !.res = "Unauthenticated"])
                /\ UNCHANGED fs
           ELSE IF ById(kind, id) = {}
           THEN /\ Finish(p, [req EXCEPT !.res = "NotFound", !.caller = u,
                                         !.kind = kind, !.id = id])
                /\ UNCHANGED fs
           ELSE LET item == CHOOSE r \in ById(kind, id) : TRUE
                IN  IF ~IsOwner(item, u)
                    THEN /\ Finish(p, [req EXCEPT !.res = "Forbidden", !.caller = u,
                                                  !.kind = kind, !.id = id])
                         /\ UNCHANGED fs
                    ELSE /\ fs' = {f \in fs : f.path \notin DeleteTargets(kind, item)}
                         /\ Goto(p, [req EXCEPT !.caller = u, !.kind = kind, !.id = id,
                                                !.stamp = item.created_at,
                                                !.path = fallback_archive(kind, item)],
                                 "del_commit")
    /\ UNCHANGED <<authvars, cat, dirs, store, deleted, hist, rows, versions, idseq, clock>>

\* db.delete(problem); db.commit(): the row and, by the cascade, its
\* versions; then trim_empty_parents(fallback_archive.parent, root)
DeleteCommit(p) ==
    /\ proc[p].pc = "del_commit"
    /\ LET kind == proc[p].kind
       IN  /\ rows' = [rows EXCEPT ![kind] = {r \in @ : r.id # proc[p].id}]
           /\ versions' = [versions EXCEPT ![kind] =
                               {v \in @ : v.artifact_id # proc[p].id}]
    /\ deleted' = [deleted EXCEPT ![proc[p].kind] = @ \cup {proc[p].id}]
    /\ Finish(p, [proc[p] EXCEPT !.res = "NoContent"])
    /\ hist' = {h \in hist : h.stamp # proc[p].stamp}
    /\ dirs' = trim_empty_parents(dirs, fs, Parent(proc[p].path), Root(proc[p].kind))
    /\ UNCHANGED <<authvars, cat, store, fs, idseq, clock>>

\* db.delete(problem) or db.commit() raises: nothing catches it, the session
\* is closed without commit and the rows stay; the blobs are gone already
DeleteFail(p) ==
    /\ proc[p].pc = "del_commit"
    /\ Finish(p, [proc[p] EXCEPT !.res = "InternalError", !.at = "del_commit"])
    /\ UNCHANGED <<authvars, cat, dirs, store, deleted, hist, rows, versions, fs, idseq, clock>>

(***************************************************************************)
(* Rate: rate_item.                                                        *)
(***************************************************************************)
\* the table a normalized item_type selects, "none" for a 400
KindOf(normalized) ==
    CASE normalized \in {<<"problem">>, <<"problems">>, <<"benchmark">>, <<"benchmarks">>}
            -> "problems"
      [] normalized \in {<<"solver">>, <<"solvers">>} -> "solvers"
      [] OTHER -> "none"

\* mutant: the string is compared as it was sent
RateKindAsSent(item_type) == KindOf(item_type)

\* normalized = item_type.lower().strip()
RateKind(item_type) == KindOf(Strip(Lower(item_type), WhitespaceChars))

\* mutant: the payload is not validated
RatePayloadUnchecked(rating) == TRUE

\* rating: float = Field(ge=0.0, le=5.0)
RatePayload(rating) == rating >= 0 /\ rating <= 5

\* the dependencies run first, then the body is validated (422), then the
\* handler body
RateBegin(p, cred, item_type, id, score) ==
    /\ proc[p].pc = "idle"
    /\ LET u == get_current_user(cred)
           kind == RateKind(item_type)
           req == [Idle EXCEPT !.op = "rate", !.cred = cred, !.score = score,
                               !.item_type = item_type]
       IN  IF u = NoUser
           THEN Finish(p, [req EXCEPT !.res = "Unauthenticated"])
           ELSE IF ~RatePayload(score)
           THEN Finish(p, [req EXCEPT !.res = "Unprocessable", !.caller = u])
           ELSE IF kind = "none"
           THEN Finish(p, [req EXCEPT !.res = "BadRequest", !.caller = u])
           ELSE IF ById(kind, id) = {}
           THEN Finish(p, [req EXCEPT !.res = "NotFound", !.caller = u,
                                      !.kind = kind, !.id = id])
           ELSE LET item == CHOOSE r \in ById(kind, id) : TRUE
                IN  Goto(p, [req EXCEPT !.caller = u, !.kind = kind, !.id = id,
                                        !.stamp = item.created_at,
                                        !.n = item.rating_count,
                                        !.avg = item.rating, !.score = score],
                         "rate_commit")
    /\ UNCHANGED <<authvars, cat, dirs, store, deleted, hist, rows, versions, fs, idseq, clock>>

\* item.rating and item.rating_count are set from the loaded values, then
\* db.add(item); db.commit()
RateCommit(p) ==
    /\ proc[p].pc = "rate_commit"
    /\ LET kind == proc[p].kind
           hit == ById(kind, proc[p].id)
       IN  IF hit = {}
           THEN /\ Finish(p, [proc[p] EXCEPT !.res = "InternalError"])
                /\ UNCHANGED <<rows, hist>>
           ELSE /\ rows' = [rows EXCEPT ![kind] =
                               {IF r \in hit
                                THEN [r EXCEPT
                                        !.rating = RunningAverage(proc[p].avg, proc[p].n,
                                                                  proc[p].score),
                                        !.rating_count = proc[p].n + 1]
                                ELSE r : r \in @}]
                /\ hist' = {IF h.stamp = proc[p].stamp
                             THEN [h EXCEPT !.scores = Append(@, proc[p].score)]
                             ELSE h : h \in hist}
                /\ Finish(p, [proc[p] EXCEPT !.res = "OK"])
    /\ UNCHANGED <<authvars, cat, dirs, store, deleted, versions, fs, idseq, clock>>

(***************************************************************************)
(* List/search: list_problems and list_solvers.                            *)
(***************************************************************************)
\* text LIKE pattern: "%" stands for any run of characters, "_" for any one
RECURSIVE Like(_, _)
Like(text, pattern) ==
    IF pattern = <<>> THEN text = <<>>
    ELSE IF Head(pattern) = "%"
    THEN Like(text, Tail(pattern)) \/ (text # <<>> /\ Like(Tail(text), pattern))
    ELSE /\ text # <<>>
         /\ (Head(pattern) = "_" \/ Head(pattern) = Head(text))
         /\ Like(Tail(text), Tail(pattern))

\* column.ilike(pattern): LIKE without regard to case
ilike(text, pattern) == Like(Lower(text), Lower(pattern))

\* like = f"%{q.strip()}%"
like(q) == <<"%">> \o Strip(q, WhitespaceChars) \o <<"%">>

\* the rows the query selects: "if q:" and "if normalized_category:".  A NULL
\* category equals no filter value.
Filtered(kind, q, category) ==
    {r \in rows[kind] :
        /\ (q # Missing /\ q # <<>>)
              => (ilike(r.name, like(q)) \/ ilike(r.description, like(q)))
        /\ normalize_optional_text(category) # Missing
              => r.category = normalize_optional_text(category)}

\* order_by(created_at.desc())
RECURSIVE OrderByCreatedAtDesc(_)
OrderByCreatedAtDesc(S) ==
    IF S = {} THEN <<>>
    ELSE LET first == CHOOSE r \in S : \A o \in S : o.created_at <= r.created_at
         IN  <<first>> \o OrderByCreatedAtDesc(S \ {first})

\* mutant: the offset of the page after the requested one
OffsetNextPage(page, page_size) == page * page_size

\* offset((page - 1) * page_size)
Offset(page, page_size) == (page - 1) * page_size

\* .offset(o).limit(page_size).all()
Slice(ordered, o, page_size) ==
    IF o >= Len(ordered) THEN <<>>
    ELSE SubSeq(ordered, o + 1,
                IF o + page_size <= Len(ordered) THEN o + page_size ELSE Len(ordered))

\* the whole handler; page and page_size are validated by Query(ge=1) and
\* Query(ge=1, le=100) before the body runs
List(p, kind, q, category, page, page_size) ==
    /\ proc[p].pc = "idle"
    /\ LET req == [Idle EXCEPT !.op = "list", !.kind = kind, !.q = q,
                               !.category = category, !.page = page,
                               !.page_size = page_size]
           found == Filtered(kind, q, category)
           items == Slice(OrderByCreatedAtDesc(found), Offset(page, page_size), page_size)
       IN  IF page < 1 \/ page_size < 1 \/ page_size > 100
           THEN Finish(p, [req EXCEPT !.res = "Unprocessable"])
           ELSE Finish(p, [req EXCEPT !.res = "OK",
                                      !.items = [i \in 1..Len(items) |-> items[i].id],
                                      !.total = Cardinality(found)])
    /\ UNCHANGED <<authvars, cat, dirs, store, deleted, hist, rows, versions, fs, idseq, clock>>

(***************************************************************************)
(* Startup: backfill_missing_categories.                                   *)
(***************************************************************************)
\* .filter(or_(category.is_(None), category == ""))
Uncategorized(kind) ==
    {r \in rows[kind] : r.category = Missing \/ r.category = <<>>}

\* mutant: every row is given the inferred category
BackfilledAlways(kind, r) ==
    [r EXCEPT !.category = infer_category(ItemType(kind), r.name, r.description, NoManifest)]

\* the row as the loop leaves it
Backfilled(kind, r) ==
    IF r \in Uncategorized(kind)
    THEN [r EXCEPT !.category = infer_category(ItemType(kind), r.name, r.description, NoManifest)]
    ELSE r

\* the whole function, run by on_startup before any request is served; n is
\* the counter "changed", and the single commit writes both tables
backfill_missing_categories(p) ==
    /\ \A q \in Procs : proc[q].pc = "idle"
    /\ rows' = [k \in Kinds |-> {Backfilled(k, r) : r \in rows[k]}]
    /\ Finish(p, [Idle EXCEPT !.op = "backfill",
                              !.n = Cardinality(Uncategorized("problems"))
                                    + Cardinality(Uncategorized("solvers"))])
    /\ UNCHANGED <<authvars, cat, dirs, store, deleted, hist, versions, fs, idseq, clock>>

(***************************************************************************)
(* The authentication core: session tokens (auth.py).  A token is a record *)
(* of what jwt.encode signs; exp is a NumericDate, in whole seconds.       *)
(***************************************************************************)
DigitChars == <<"0", "1", "2", "3", "4", "5", "6", "7", "8", "9">>

\* str(n), for 0 <= n <= 9
Str(n) == <<DigitChars[n + 1]>>

\* int(subject): the number, -1 for the ValueError
ParseInt(text) ==
    IF Len(text) = 1 /\ \E d \in 1..10 : DigitChars[d] = text[1]
    THEN (CHOOSE d \in 1..10 : DigitChars[d] = text[1]) - 1
    ELSE -1

\* the wall clock as jwt reads it: timegm(...utctimetuple()), whole seconds
Seconds(t) == t \div TicksPerSecond

\* timedelta(minutes=ACCESS_TOKEN_EXPIRE_MINUTES), in ticks
ExpireTicks == ExpireSeconds * TicksPerSecond

\* expires = now + duration; jwt.encode stores exp in whole seconds
create_access_token(subject, t) ==
    [kind |-> "jwt", sub |-> subject, exp |-> Seconds(t + ExpireTicks), sig |-> "good"]

\* mutant: the expiry is not checked
decode_access_token_any_time(token, t) ==
    IF token.kind = "jwt" /\ token.sig = "good"
    THEN [ok |-> TRUE, sub |-> token.sub]
    ELSE [ok |-> FALSE, sub |-> <<>>]

\* jwt.decode: the signature is checked, then exp < now raises; None is
\* [ok |-> FALSE]
decode_access_token(token, t) ==
    IF token.kind = "jwt" /\ token.sig = "good" /\ ~(token.exp < Seconds(t))
    THEN [ok |-> TRUE, sub |-> token.sub]
    ELSE [ok |-> FALSE, sub |-> <<>>]

\* mutant: the session-token path never yields a User
user_from_jwt_skipped(token, t) == {}

\* the User rows the token names: none (None) or one
user_from_jwt(token, t) ==
    LET payload == decode_access_token(token, t)
    IN  IF ~payload.ok THEN {}
        ELSE IF payload.sub = <<>> THEN {}
        ELSE IF ParseInt(payload.sub) = -1 THEN {}
        ELSE {u \in users : u.id = ParseInt(payload.sub)}

(***************************************************************************)
(* The identity provider, as the two calls see its response.               *)
(***************************************************************************)
\* the outcome of exchange_oauth_code_for_token: a status and the token.
\* No except clause covers the request itself: an httpx error leaves the
\* handler as an unhandled exception (500).
exchange_oauth_code_for_token(response) ==
    IF ~response.net THEN [status |-> 500, token |-> Missing]
    ELSE IF ~response.json THEN [status |-> 502, token |-> Missing]
    ELSE IF response.status # 200 THEN [status |-> 400, token |-> Missing]
    ELSE IF response.err THEN [status |-> 400, token |-> Missing]
    ELSE IF response.token = Missing \/ Strip(response.token, WhitespaceChars) = <<>>
    THEN [status |-> 502, token |-> Missing]
    ELSE [status |-> 200, token |-> Strip(response.token, WhitespaceChars)]

\* the outcome of fetch_github_user: a status; on 200 the payload is the
\* response.  response.json() is not guarded: a body that is no JSON is an
\* unhandled exception (500), as is an httpx error.
fetch_github_user(response) ==
    IF ~response.net THEN 500
    ELSE IF response.status # 200 THEN 401
    ELSE IF ~response.json THEN 500
    ELSE IF response.id = 0 THEN 401
    ELSE 200

(***************************************************************************)
(* upsert_user_from_github.                                                *)
(***************************************************************************)
has_login(github_user) ==
    github_user.login # Missing /\ Strip(github_user.login, WhitespaceChars) # <<>>

resolved_username(github_user) ==
    IF has_login(github_user) THEN Strip(github_user.login, WhitespaceChars)
    ELSE <<"github-id-">> \o Str(github_user.id)

\* github_user.get("avatar_url") or ""
avatar_url(github_user) ==
    IF github_user.avatar = Missing THEN <<>> ELSE github_user.avatar

\* the integer primary key an INSERT into users receives
NextUserId == Max({u.id : u \in users}) + 1

\* mutant: github_id is not declared unique
GithubIdNeverTaken(github_id, self_id) == FALSE

\* unique=True on github_id: another row holds the value
GithubIdTaken(github_id, self_id) ==
    \E u \in users : u.id # self_id /\ u.github_id = github_id

\* unique=True on username: another row holds the value
UsernameTaken(username, self_id) ==
    \E u \in users : u.id # self_id /\ u.username = username

(***************************************************************************)
(* The requests of the authentication core.                                *)
(***************************************************************************)
AuthFinish(p, rec) == areq' = [areq EXCEPT ![p] = [rec EXCEPT !.pc = "done"]]

AuthGoto(p, rec, pc) == areq' = [areq EXCEPT ![p] = [rec EXCEPT !.pc = pc]]

\* get_current_user, then authenticate_token up to its await
AuthenticateBegin(p, token) ==
    /\ areq[p].pc = "idle"
    /\ LET req == [AuthIdle EXCEPT !.op = "auth", !.token = token]
           hit == user_from_jwt(token, now)
       IN  IF token = NoToken
           THEN AuthFinish(p, [req EXCEPT !.status = 401])
           ELSE IF hit # {}
           THEN AuthFinish(p, [req EXCEPT !.status = 200,
                                          !.user = (CHOOSE u \in hit : TRUE).id])
           ELSE AuthGoto(p, req, "fetch")
    /\ UNCHANGED <<regvars, cat, users, now, wallet>>

\* login_with_bearer up to its await
LoginBegin(p, token) ==
    /\ areq[p].pc = "idle"
    /\ LET req == [AuthIdle EXCEPT !.op = "login", !.token = token]
       IN  IF token = NoToken
           THEN AuthFinish(p, [req EXCEPT !.status = 401])
           ELSE AuthGoto(p, req, "fetch")
    /\ UNCHANGED <<regvars, cat, users, now, wallet>>

\* callback up to its first await
CallbackBegin(p) ==
    /\ areq[p].pc = "idle"
    /\ AuthGoto(p, [AuthIdle EXCEPT !.op = "callback"], "exchange")
    /\ UNCHANGED <<regvars, cat, users, now, wallet>>

\* the identity provider answers the code exchange, or the network fails
Exchange(p, response) ==
    /\ areq[p].pc = "exchange"
    /\ LET out == exchange_oauth_code_for_token(response)
           req == [areq[p] EXCEPT !.calls = @ + 1, !.resp = response]
       IN  IF out.status = 200
           THEN AuthGoto(p, [req EXCEPT !.token =
                                 [kind |-> "upstream", sub |-> out.token,
                                  exp |-> 0, sig |-> "none"]],
                         "fetch")
           ELSE AuthFinish(p, [req EXCEPT !.status = out.status])
    /\ UNCHANGED <<regvars, cat, users, now, wallet>>

\* the identity provider answers the profile request, or the network fails
FetchGithubUser(p, response) ==
    /\ areq[p].pc = "fetch"
    /\ LET out == fetch_github_user(response)
           req == [areq[p] EXCEPT !.calls = @ + 1, !.resp = response]
       IN  IF out = 200
           THEN AuthGoto(p, req, "upsert")
           ELSE AuthFinish(p, [req EXCEPT !.status = out])
    /\ UNCHANGED <<regvars, cat, users, now, wallet>>

\* db.query(User).filter(User.github_id == github_id).first(): 0 for None
UpsertQuery(p) ==
    /\ areq[p].pc = "upsert"
    /\ LET hit == {u \in users : u.github_id = Str(areq[p].resp.id)}
       IN  AuthGoto(p, [areq[p] EXCEPT !.found =
                            IF hit = {} THEN 0 ELSE (CHOOSE u \in hit : TRUE).id],
                    "upsert_commit")
    /\ UNCHANGED <<regvars, cat, users, now, wallet>>

\* the caller has its User: login_with_bearer issues a session token
UpsertDone(p, id) ==
    IF areq[p].op = "login"
    THEN /\ AuthFinish(p, [areq[p] EXCEPT !.status = 200, !.user = id,
                              !.issued = create_access_token(Str(id), now)])
         /\ wallet' = wallet \cup
                {[token |-> create_access_token(Str(id), now), user |-> id, at |-> now]}
    ELSE /\ AuthFinish(p, [areq[p] EXCEPT !.status = 200, !.user = id])
         /\ UNCHANGED wallet

\* db.add(user); db.commit(): the INSERT or the UPDATE; a unique constraint
\* that fails is an IntegrityError no handler catches (500)
UpsertCommit(p) ==
    /\ areq[p].pc = "upsert_commit"
    /\ LET github_user == areq[p].resp
           github_id == Str(github_user.id)
       IN  IF areq[p].found = 0
           THEN LET user == [id |-> NextUserId, github_id |-> github_id,
                             username |-> resolved_username(github_user),
                             avatar_url |-> avatar_url(github_user)]
                IN  IF GithubIdTaken(github_id, 0) \/ UsernameTaken(user.username, 0)
                    THEN /\ AuthFinish(p, [areq[p] EXCEPT !.status = 500])
                         /\ UNCHANGED <<users, wallet>>
                    ELSE /\ users' = users \cup {user}
                         /\ UpsertDone(p, user.id)
           ELSE LET old == CHOOSE u \in users : u.id = areq[p].found
                    user == [old EXCEPT
                               !.username = IF has_login(github_user)
                                            THEN resolved_username(github_user) ELSE @,
                               !.avatar_url = avatar_url(github_user)]
                IN  IF UsernameTaken(user.username, old.id)
                    THEN /\ AuthFinish(p, [areq[p] EXCEPT !.status = 500])
                         /\ UNCHANGED <<users, wallet>>
                    ELSE /\ users' = (users \ {old}) \cup {user}
                         /\ UpsertDone(p, user.id)
    /\ UNCHANGED <<regvars, cat, now>>

\* the response is sent: the worker is free again
AuthReturn(p) ==
    /\ areq[p].pc = "done"
    /\ areq' = [areq EXCEPT ![p] = AuthIdle]
    /\ UNCHANGED <<regvars, cat, users, now, wallet>>

\* time passes
Tick ==
    /\ now' = now + 1
    /\ UNCHANGED <<regvars, cat, users, areq, wallet>>

(***************************************************************************)
(* Specifications.  The bounds cap the counters in the guards of the       *)
(* requests that would raise them.                                         *)
(***************************************************************************)
\* the steps a worker takes once its request is under way
CreateSteps(p) ==
    CreatePersist(p) \/ CreateFlush(p) \/ CreateCommit(p) \/ CreateFail(p)

\* One request at a time: the life of an artifact.  Downloads and ratings
\* appear as far as they are refused; the counters have their own
\* specifications.
LifeNext ==
    \/ \E cred \in Creds, kind \in Kinds, name \in Names, version \in Versions,
          is_zip \in BOOLEAN :
          CreateBegin("p1", cred, kind, name, version, PlainDescription, Missing, NoManifest, is_zip) /\ clock' <= MaxCreates
    \/ CreateSteps("p1")
    \/ \E kind \in Kinds, id \in ItemIds : Get("p1", kind, id)
    \/ \E cred \in Creds, kind \in Kinds, id \in ItemIds :
          DownloadBegin("p1", cred, kind, id) /\ proc'["p1"].pc = "done"
    \/ \E cred \in Creds, item_type \in ItemTypes, id \in ItemIds, score \in Scores :
          RateBegin("p1", cred, item_type, id, score) /\ proc'["p1"].pc = "done"
    \/ \E cred \in Creds, kind \in Kinds, id \in ItemIds : DeleteBegin("p1", cred, kind, id)
    \/ DeleteCommit("p1")
    \/ Return("p1")

SpecLife == Init /\ [][LifeNext]_vars

\* One request at a time: uploads with and without a category of their own,
\* and searches over them.  An upload is a name with the category field sent
\* along; a search text hits the description of every upload or, with a
\* wildcard, the name of one.
ListUploads == {<<<<"a">>, Missing>>, <<<<"a", "b">>, <<" ", "Mine">>>>, <<<<"b">>, Missing>>}
ListQueries == {Missing, <<" ", "D", " ">>, <<"_", "b">>}
ListCategories == {Missing, <<"Mine", " ">>, <<"General">>}
Pages == 0..2
PageSizes == {1, 2, 101}

ListNext ==
    \/ \E kind \in Kinds, upload \in ListUploads :
          /\ CreateBegin("p1", "tok-u1", kind, upload[1], <<"1">>, PlainDescription,
                         upload[2], NoManifest, TRUE)
          /\ clock' <= MaxListCreates
    \/ CreateSteps("p1")
    \/ \E kind \in Kinds, q \in ListQueries, category \in ListCategories,
          page \in Pages, page_size \in PageSizes :
          List("p1", kind, q, category, page, page_size)
    \/ Return("p1")

SpecList == Init /\ [][ListNext]_vars

\* One request at a time: every operation of the registry.
AllNext ==
    \/ \E cred \in Creds, kind \in Kinds, name \in PlainNames, version \in PlainVersions,
          is_zip \in BOOLEAN :
          CreateBegin("p1", cred, kind, name, version, PlainDescription, Missing, NoManifest, is_zip) /\ clock' <= MaxAllCreates
    \/ CreateSteps("p1")
    \/ \E kind \in Kinds, id \in ItemIds : Get("p1", kind, id)
    \/ \E cred \in Creds, kind \in Kinds, id \in ItemIds :
          DownloadBegin("p1", cred, kind, id) /\ proc'["p1"].n < MaxAllCounts
    \/ DownloadCommit("p1")
    \/ \E cred \in Creds, kind \in Kinds, id \in ItemIds : DeleteBegin("p1", cred, kind, id)
    \/ DeleteCommit("p1")
    \/ \E cred \in Creds, item_type \in ItemTypes, id \in ItemIds, score \in Scores :
          RateBegin("p1", cred, item_type, id, score) /\ proc'["p1"].n < MaxAllCounts
    \/ RateCommit("p1")
    \/ Return("p1")

Spec == Init /\ [][AllNext]_vars

\* One request at a time: uploads, deletes and the download counter, on a
\* new installation or on one that predates the version tables.
DownloadNext ==
    \/ \E cred \in Creds, kind \in Kinds, name \in PlainNames, version \in Versions,
          is_zip \in BOOLEAN :
          CreateBegin("p1", cred, kind, name, version, PlainDescription, Missing, NoManifest, is_zip) /\ clock' <= MaxCountCreates
    \/ CreateSteps("p1")
    \/ \E cred \in Creds, kind \in Kinds, id \in ItemIds :
          DownloadBegin("p1", cred, kind, id) /\ proc'["p1"].n < MaxDownloads
    \/ DownloadCommit("p1")
    \/ \E cred \in Creds, kind \in Kinds, id \in ItemIds : DeleteBegin("p1", cred, kind, id)
    \/ DeleteCommit("p1")
    \/ Return("p1")

SpecDownload == (Init \/ InitLegacy) /\ [][DownloadNext]_vars

\* One request at a time: downloads of artifacts whose blob is there, was
\* never recorded, or was unlinked by the cleanup of a later upload to the
\* same path.
FetchNext ==
    \/ \E kind \in Kinds, name \in Names :
          /\ CreateBegin("p1", "tok-u1", kind, name, <<"1">>, PlainDescription,
                         Missing, NoManifest, TRUE)
          /\ clock' <= MaxFetchCreates
    \/ CreateSteps("p1")
    \/ \E kind \in Kinds, id \in ItemIds :
          DownloadBegin("p1", "none", kind, id) /\ proc'["p1"].n < MaxFetchDownloads
    \/ DownloadCommit("p1")
    \/ Return("p1")

SpecFetch == (Init \/ InitLegacy) /\ [][FetchNext]_vars

\* One request at a time: uploads, deletes and the running average.
RateNext ==
    \/ \E cred \in Creds, kind \in Kinds, name \in PlainNames, version \in PlainVersions,
          is_zip \in BOOLEAN :
          CreateBegin("p1", cred, kind, name, version, PlainDescription, Missing, NoManifest, is_zip) /\ clock' <= MaxCountCreates
    \/ CreateSteps("p1")
    \/ \E cred \in Creds, kind \in Kinds, id \in ItemIds : DeleteBegin("p1", cred, kind, id)
    \/ DeleteCommit("p1")
    \/ \E cred \in Creds, item_type \in ItemTypes, id \in ItemIds, score \in RateScores :
          RateBegin("p1", cred, item_type, id, score) /\ proc'["p1"].n < MaxRatings
    \/ RateCommit("p1")
    \/ Return("p1")

SpecRate == Init /\ [][RateNext]_vars

\* Two workers, their uploads interleaved statement by statement.
RaceNext ==
    \E p \in Procs :
        \/ \E cred \in Creds, kind \in Kinds, name \in Names, version \in Versions,
              is_zip \in BOOLEAN :
              CreateBegin(p, cred, kind, name, version, PlainDescription, Missing, NoManifest, is_zip) /\ clock' <= MaxRaceCreates
        \/ CreateSteps(p)
        \/ Return(p)

SpecRace == Init /\ [][RaceNext]_vars

\* Two workers, their downloads interleaved between the load of the row and
\* the commit (download_problem is a sync handler, run in the threadpool,
\* each request with a session of its own).
DownloadRaceNext ==
    \E p \in Procs :
        \/ \E kind \in Kinds :
              /\ CreateBegin(p, "tok-u1", kind, <<"a">>, <<"1">>, PlainDescription,
                             Missing, NoManifest, TRUE)
              /\ clock' <= MaxCounterRaceCreates
        \/ CreateSteps(p)
        \/ \E kind \in Kinds, id \in ItemIds :
              DownloadBegin(p, "none", kind, id) /\ proc'[p].n < MaxRaceDownloads
        \/ DownloadCommit(p)
        \/ Return(p)

SpecDownloadRace == Init /\ [][DownloadRaceNext]_vars

\* Two workers, their ratings interleaved between the load of the row and
\* the commit (rate_item is a sync handler too).
RateRaceNext ==
    \E p \in Procs :
        \/ \E kind \in Kinds :
              /\ CreateBegin(p, "tok-u1", kind, <<"a">>, <<"1">>, PlainDescription,
                             Missing, NoManifest, TRUE)
              /\ clock' <= MaxCounterRaceCreates
        \/ CreateSteps(p)
        \/ \E cred \in {"tok-u1", "tok-u2"}, item_type \in {<<"problem">>, <<"solver">>},
              id \in ItemIds, score \in Scores :
              RateBegin(p, cred, item_type, id, score) /\ proc'[p].n < MaxRaceRatings
        \/ RateCommit(p)
        \/ Return(p)

SpecRateRace == Init /\ [][RateRaceNext]_vars

\* One request at a time: ratings under every spelling of the kind.
RateSpellings ==
    {<<"problem">>, <<"problems">>, <<"benchmark">>, <<"benchmarks">>,
     <<"solver">>, <<"solvers">>, <<"Problems">>, <<" ", "SOLVER", " ">>,
     <<"widget">>, <<"problem", "s", "s">>, <<" ">>}

KindNext ==
    \/ \E kind \in Kinds :
          /\ CreateBegin("p1", "tok-u1", kind, <<"a">>, <<"1">>, PlainDescription,
                         Missing, NoManifest, TRUE)
          /\ clock' <= MaxKindCreates
    \/ CreateSteps("p1")
    \/ \E cred \in {"none", "tok-u2"}, item_type \in RateSpellings, id \in 1..2,
          score \in {2, 6} :
          RateBegin("p1", cred, item_type, id, score) /\ proc'["p1"].n < MaxKindRatings
    \/ RateCommit("p1")
    \/ Return("p1")

SpecKind == Init /\ [][KindNext]_vars

\* An installation whose artifact rows predate the category column (ALTER
\* TABLE leaves NULL) or carry the empty string: one row of each kind, no
\* version rows, the blobs at their deterministic paths.
UncategorizedValues == {Missing, <<>>}
LegacyDescriptions == {<<"d">>, <<"tsp">>}

LegacySolverRow == [LegacyRow EXCEPT !.created_at = -1]

InitUncategorized ==
    /\ AuthInit
    /\ cat = NoCall
    /\ store \in Stores
    /\ \E c1 \in UncategorizedValues, c2 \in UncategorizedValues,
          d1 \in LegacyDescriptions, d2 \in LegacyDescriptions :
          rows = [k \in Kinds |->
                     IF k = "problems"
                     THEN {[LegacyRow EXCEPT !.category = c1, !.description = d1]}
                     ELSE {[LegacySolverRow EXCEPT !.category = c2, !.description = d2]}]
    /\ versions = [k \in Kinds |-> {}]
    /\ fs = {[path |-> build_archive_path(k, LegacyRow.owner_id, LegacyRow.name,
                                          LegacyRow.version),
              data |-> 0] : k \in Kinds}
    /\ idseq = [k \in Kinds |-> 1]
    /\ clock = 0
    /\ proc = [p \in Procs |-> Idle]
    /\ deleted = [k \in Kinds |-> {}]
    /\ hist = {[stamp |-> 0, served |-> 0, scores |-> <<>>],
               [stamp |-> -1, served |-> 0, scores |-> <<>>]}
    /\ dirs = Roots \cup UNION {{<<Root(k)[1], LegacyRow.owner_id>>,
                                 <<Root(k)[1], LegacyRow.owner_id,
                                   sanitize_name(LegacyRow.name)>>} : k \in Kinds}

\* Restarts of the server between uploads with and without a category.
BackfillNext ==
    \/ \E kind \in Kinds, category \in {Missing, <<"Mine">>} :
          /\ CreateBegin("p1", "tok-u2", kind, <<"a">>, <<"1">>, <<"tsp">>,
                         category, NoManifest, TRUE)
          /\ clock' <= MaxBackfillCreates
    \/ CreateSteps("p1")
    \/ backfill_missing_categories("p1")
    \/ Return("p1")

SpecBackfill == InitUncategorized /\ [][BackfillNext]_vars

\* One request at a time: the same owner, name and version in both kinds.
NamespaceNext ==
    \/ \E kind \in Kinds :
          /\ CreateBegin("p1", "tok-u1", kind, <<"a">>, <<"1">>, PlainDescription,
                         Missing, NoManifest, TRUE)
          /\ clock' <= MaxNamespaceCreates
    \/ CreateSteps("p1")
    \/ \E kind \in Kinds, id \in 1..2 :
          DownloadBegin("p1", "none", kind, id) /\ proc'["p1"].n < MaxNamespaceCounts
    \/ DownloadCommit("p1")
    \/ \E item_type \in {<<"problem">>, <<"solver">>}, id \in 1..2, score \in Scores :
          RateBegin("p1", "tok-u2", item_type, id, score)
          /\ proc'["p1"].n < MaxNamespaceCounts
    \/ RateCommit("p1")
    \/ \E kind \in Kinds, id \in 1..2 : DeleteBegin("p1", "tok-u1", kind, id)
    \/ DeleteCommit("p1")
    \/ Return("p1")

SpecNamespaces == Init /\ [][NamespaceNext]_vars

\* One request at a time: uploads, and deletes whose database step may fail.
DeleteFailNext ==
    \/ \E kind \in Kinds, version \in Versions :
          /\ CreateBegin("p1", "tok-u1", kind, <<"a">>, version, PlainDescription,
                         Missing, NoManifest, TRUE)
          /\ clock' <= MaxDeleteFailCreates
    \/ CreateSteps("p1")
    \/ \E cred \in {"tok-u1", "tok-u2"}, kind \in Kinds, id \in 1..2 :
          DeleteBegin("p1", cred, kind, id)
    \/ DeleteCommit("p1")
    \/ DeleteFail("p1")
    \/ Return("p1")

SpecDeleteFail == (Init \/ InitLegacy) /\ [][DeleteFailNext]_vars

\* One request at a time: uploads with their descriptions, and deletes.
VersionsNext ==
    \/ \E cred \in Creds, kind \in Kinds, name \in PlainNames, version \in Versions,
          description \in Descriptions, is_zip \in BOOLEAN :
          CreateBegin("p1", cred, kind, name, version, description, Missing, NoManifest, is_zip)
          /\ clock' <= MaxVersionCreates
    \/ CreateSteps("p1")
    \/ \E cred \in Creds, kind \in Kinds, id \in ItemIds : DeleteBegin("p1", cred, kind, id)
    \/ DeleteCommit("p1")
    \/ Return("p1")

SpecVersions == Init /\ [][VersionsNext]_vars

\* the arguments infer_category is called with
CategoryNames ==
    {<<"my">>, <<"TSP">>, <<"graph", " ", "planner">>, <<"qubo">>,
     <<"tsp", "-", "routing", "-", "v2">>}
CategoryDescriptions == {<<>>, <<"QUBO", " ", "tabu">>, <<"route">>}
ManifestCategories == {Missing, <<>>, <<" ">>, <<" ", "Mine", " ">>, <<"Graph">>}
ManifestClasses == {Missing, <<" ", "MILP">>, <<"QUBO">>, <<"qp">>, <<"other">>}

\* a call of infer_category is about to be made
InitCategory ==
    /\ AuthInit
    /\ store \in Stores
    /\ rows = [k \in Kinds |-> {}]
    /\ versions = [k \in Kinds |-> {}]
    /\ fs = {}
    /\ idseq = [k \in Kinds |-> 0]
    /\ clock = 0
    /\ proc = [p \in Procs |-> Idle]
    /\ deleted = [k \in Kinds |-> {}]
    /\ hist = {}
    /\ dirs = Roots
    /\ \E item_type \in {"problem", "solver"}, name \in CategoryNames,
          description \in CategoryDescriptions, c \in ManifestCategories,
          oc \in ManifestClasses :
          cat = [NoCall EXCEPT !.pc = "call", !.item_type = item_type, !.name = name,
                               !.description = description,
                               !.manifest = [category |-> c, optimization_class |-> oc]]

\* the call returns
InferCategory ==
    /\ cat.pc = "call"
    /\ cat' = [cat EXCEPT !.pc = "returned",
                          !.category = infer_category(cat.item_type, cat.name,
                                                      cat.description, cat.manifest)]
    /\ UNCHANGED <<regvars, authvars>>

CategoryNext == InferCategory

SpecCategory == InitCategory /\ [][CategoryNext]_vars

\* an access token of the identity provider: no session token
Opaque == [kind |-> "upstream", sub |-> <<"t">>, exp |-> 0, sig |-> "none"]

\* what a client may present: nothing, an upstream token, and session tokens
\* that are valid, expired, forged, or carry a subject that is not numeric,
\* is empty, or names no User
AuthTokens ==
    {NoToken, Opaque,
     [kind |-> "jwt", sub |-> <<"1">>, exp |-> 5, sig |-> "good"],
     [kind |-> "jwt", sub |-> <<"1">>, exp |-> -1, sig |-> "good"],
     [kind |-> "jwt", sub |-> <<"1">>, exp |-> 5, sig |-> "bad"],
     [kind |-> "jwt", sub |-> <<"x">>, exp |-> 5, sig |-> "good"],
     [kind |-> "jwt", sub |-> <<>>, exp |-> 5, sig |-> "good"],
     [kind |-> "jwt", sub |-> <<"9">>, exp |-> 5, sig |-> "good"]}

\* a response of the identity provider that arrived
Arrived == [NoResponse EXCEPT !.net = TRUE, !.json = TRUE, !.status = 200]

\* the profiles GET /user may carry
Profiles ==
    {[Arrived EXCEPT !.id = i, !.login = l, !.avatar = a] :
        i \in GithubIds, l \in Logins, a \in Avatars}

\* what fetch_github_user may meet: no response, a refusal, a body that is
\* no JSON, a profile without id, a profile
FetchResponses ==
    {NoResponse, [Arrived EXCEPT !.status = 401], [Arrived EXCEPT !.json = FALSE],
     Arrived} \cup Profiles

\* what exchange_oauth_code_for_token may meet: no response, or a response
\* with a status, a body that parses or not, an error field or none, and an
\* access token that is absent, blank or present
ExchangeResponses ==
    {NoResponse} \cup
    {[Arrived EXCEPT !.status = st, !.json = j, !.err = e, !.token = t] :
        st \in {200, 400}, j \in BOOLEAN, e \in BOOLEAN,
        t \in {Missing, <<" ">>, <<" ", "t">>}}

\* One request at a time: the requests of the authentication core.
AuthNext ==
    \/ \E token \in AuthTokens : AuthenticateBegin("p1", token)
    \/ \E token \in {NoToken, Opaque} : LoginBegin("p1", token)
    \/ CallbackBegin("p1")
    \/ \E response \in ExchangeResponses : Exchange("p1", response)
    \/ \E response \in FetchResponses : FetchGithubUser("p1", response)
    \/ UpsertQuery("p1")
    \/ UpsertCommit("p1")
    \/ AuthReturn("p1")

SpecAuth == Init /\ [][AuthNext]_vars

\* Two workers reconcile profiles, their statements interleaved.
ReconcileNext ==
    \E p \in Procs :
        \/ LoginBegin(p, Opaque)
        \/ \E response \in Profiles : FetchGithubUser(p, response)
        \/ UpsertQuery(p)
        \/ UpsertCommit(p)
        \/ AuthReturn(p)

SpecReconcile == Init /\ [][ReconcileNext]_vars

\* the last tick of the model's clock
MaxTicks == (ExpireSeconds + 2) * TicksPerSecond

\* the profile of the one user who signs in in SpecToken
TokenProfile == [Arrived EXCEPT !.id = 1, !.login = <<" ", "a">>]

\* One request at a time while time passes: a user signs in, is issued
\* session tokens and presents them.
TokenNext ==
    \/ LoginBegin("p1", Opaque) /\ Cardinality(wallet) < MaxTokens
    \/ \E response \in {TokenProfile, NoResponse} : FetchGithubUser("p1", response)
    \/ UpsertQuery("p1")
    \/ UpsertCommit("p1")
    \/ \E w \in wallet : AuthenticateBegin("p1", w.token)
    \/ AuthReturn("p1")
    \/ Tick /\ now < MaxTicks

SpecToken == Init /\ [][TokenNext]_vars

(***************************************************************************)
(* The claims.                                                             *)
(***************************************************************************)
\* every worker is between requests, or has just answered one
Quiescent == \A p \in Procs : proc[p].pc \in {"idle", "done"}

AllVersions == UNION {versions[k] : k \in Kinds}

\* C1: when a Create has returned its error after a failure that followed
\* the blob write (at the flush or at the commit), no file exists at the
\* path of that attempt and no Artifact or ArtifactVersion row carries the
\* timestamp of that attempt.
C1_CreateAtomicUnderFailure ==
    \A p \in Procs :
        (/\ proc[p].pc = "done"
         /\ proc[p].op = "create"
         /\ proc[p].res = "InternalError"
         /\ proc[p].at \in {"flush", "commit"})
        => /\ ~Exists(proc[p].path)
           /\ \A k \in Kinds : \A r \in rows[k] : r.created_at # proc[p].stamp
           /\ \A v \in AllVersions : v.created_at # proc[p].stamp

\* a Create failed at its commit, after the blob write and the flush
C1_Witness ==
    \E p \in Procs :
        /\ proc[p].pc = "done"
        /\ proc[p].op = "create"
        /\ proc[p].res = "InternalError"
        /\ proc[p].at = "commit"
        /\ proc[p].id > 0

\* C2: a Create by an authenticated caller with a .zip upload, issued while
\* a committed row of that kind carries the same (owner, name, version),
\* ends at once with Conflict and changes no row, no version row and no blob.
C2_SecondCreateConflicts ==
    [][\A p \in Procs :
          (/\ proc[p].pc = "idle"
           /\ proc'[p].op = "create"
           /\ proc'[p].caller # NoUser
           /\ proc'[p].kind \in Kinds
           /\ \E r \in rows[proc'[p].kind] :
                 /\ r.owner_id = proc'[p].caller
                 /\ r.name = proc'[p].name
                 /\ r.version = proc'[p].version)
          => /\ proc'[p].pc = "done"
             /\ proc'[p].res = "Conflict"
             /\ rows' = rows
             /\ versions' = versions
             /\ fs' = fs]_vars

\* a Create was refused with Conflict while the first artifact is in place
C2_Witness ==
    \E p \in Procs :
        /\ proc[p].pc = "done"
        /\ proc[p].op = "create"
        /\ proc[p].res = "Conflict"
        /\ \E r \in rows[proc[p].kind] :
              /\ r.owner_id = proc[p].caller
              /\ r.name = proc[p].name
              /\ r.version = proc[p].version
              /\ \E v \in versions[proc[p].kind] :
                    v.artifact_id = r.id /\ Exists(v.file_path)

\* C3: no reachable state holds two artifact rows of one kind with the same
\* (owner, name, version).
C3_UniqueTriple ==
    \A k \in Kinds : \A r1, r2 \in rows[k] :
        (r1.owner_id = r2.owner_id /\ r1.name = r2.name /\ r1.version = r2.version)
        => r1 = r2

\* C4: between requests, every version row's file path names a blob that
\* exists and every blob is referenced by some version row.
C4_RowsAndBlobsAgree ==
    Quiescent =>
        /\ \A v \in AllVersions : Exists(v.file_path)
        /\ \A f \in fs : \E v \in AllVersions : v.file_path = f.path

\* C5: no two version rows point at the same blob path.
C5_ExclusiveBlob ==
    \A k1, k2 \in Kinds : \A v1 \in versions[k1], v2 \in versions[k2] :
        v1.file_path = v2.file_path => (k1 = k2 /\ v1 = v2)

\* C6, as claimed: once the Delete of an id has committed, every later Get,
\* Download or Rate on that id answers NotFound.
C6_DeletedStaysGone ==
    \A p \in Procs :
        (/\ proc[p].pc = "done"
         /\ proc[p].op \in {"get", "download", "rate"}
         /\ proc[p].kind \in Kinds
         /\ proc[p].id \in deleted[proc[p].kind])
        => proc[p].res = "NotFound"

\* C6, amended: the removal step of a Delete by the owner leaves no blob at
\* any path its version rows record; when the Delete has returned, the row
\* and its version rows are gone; and a later Get, Download or Rate on the
\* deleted id answers NotFound for as long as no row holds that id again.
C6_DeleteRemovesEverything ==
    [][\A p \in Procs :
          /\ (proc[p].pc = "idle" /\ proc'[p].pc = "del_commit")
             => \A v \in versions[proc'[p].kind] :
                   v.artifact_id = proc'[p].id
                   => \A f \in fs' : f.path # v.file_path
          /\ (proc[p].pc = "del_commit" /\ proc'[p].pc = "done")
             => /\ proc'[p].res = "NoContent"
                /\ \A r \in rows'[proc'[p].kind] : r.id # proc'[p].id
                /\ \A v \in versions'[proc'[p].kind] : v.artifact_id # proc'[p].id
                /\ \A v \in versions[proc'[p].kind] :
                      v.artifact_id = proc'[p].id
                      => \A f \in fs' : f.path # v.file_path
          /\ (/\ proc'[p].pc = "done"
              /\ proc'[p].op \in {"get", "download", "rate"}
              /\ proc'[p].kind \in Kinds
              /\ proc'[p].id \in deleted'[proc'[p].kind]
              /\ \A r \in rows'[proc'[p].kind] : r.id # proc'[p].id)
             => proc'[p].res = "NotFound"]_vars

\* a Get on an id whose Delete has committed was answered NotFound
C6_Witness ==
    \E p \in Procs :
        /\ proc[p].pc = "done"
        /\ proc[p].op = "get"
        /\ proc[p].id \in deleted[proc[p].kind]
        /\ proc[p].res = "NotFound"
        /\ fs = {}
        /\ clock > 0

\* C7: a Delete by an authenticated caller on an existing artifact of another
\* owner ends at once with Forbidden and changes no row, no version row and
\* no blob.
C7_ForeignDeleteForbidden ==
    [][\A p \in Procs :
          (/\ proc[p].pc = "idle"
           /\ proc'[p].op = "delete"
           /\ proc'[p].caller # NoUser
           /\ proc'[p].kind \in Kinds
           /\ \E r \in rows[proc'[p].kind] :
                 r.id = proc'[p].id /\ r.owner_id # proc'[p].caller)
          => /\ proc'[p].pc = "done"
             /\ proc'[p].res = "Forbidden"
             /\ rows' = rows
             /\ versions' = versions
             /\ fs' = fs]_vars

\* a Delete was refused with Forbidden and the artifact's blob is in place
C7_Witness ==
    \E p \in Procs :
        /\ proc[p].pc = "done"
        /\ proc[p].op = "delete"
        /\ proc[p].res = "Forbidden"
        /\ \E v \in versions[proc[p].kind] :
              v.artifact_id = proc[p].id /\ Exists(v.file_path)

\* C8: a step of a request whose credential resolves to no User changes no
\* artifact row (download counters and ratings included), no version row and
\* no blob.
C8_AllMutationsGated ==
    [][\A p \in Procs :
          LET cred == IF proc[p].pc = "idle" THEN proc'[p].cred ELSE proc[p].cred
          IN  (proc'[p] # proc[p] /\ get_current_user(cred) = NoUser)
              => (rows' = rows /\ versions' = versions /\ fs' = fs)]_vars

\* the history of the artifact created at that time
HistOf(stamp) == CHOOSE h \in hist : h.stamp = stamp

\* C9: with one request at a time, the download counter of every artifact
\* equals the number of successful Downloads served for it (0 when fresh);
\* a successful Download raises the counter of its artifact by exactly one
\* and leaves the other rows alone, whether the path came from the version
\* record or from the fallback; and the counter of an artifact never
\* decreases.
C9_DownloadCounts ==
    /\ [](\A k \in Kinds : \A r \in rows[k] :
             r.download_count = HistOf(r.created_at).served)
    /\ [][/\ \A p \in Procs :
              (proc[p].pc = "dl_commit" /\ proc'[p].pc = "done" /\ proc'[p].res = "OK")
              => \E r \in rows[proc[p].kind] :
                    /\ r.id = proc[p].id
                    /\ rows' = [rows EXCEPT ![proc[p].kind] =
                                    (@ \ {r}) \cup
                                    {[r EXCEPT !.download_count = r.download_count + 1]}]
          /\ \A k \in Kinds : \A r \in rows[k], r2 \in rows'[k] :
                (r2.id = r.id /\ r2.created_at = r.created_at)
                => r2.download_count >= r.download_count]_vars

\* a Download has just succeeded; an artifact without version record has
\* been served twice from the fallback path and an artifact with a version
\* record has been served from the recorded path
C9_Witness ==
    /\ \E p \in Procs :
          proc[p].pc = "done" /\ proc[p].op = "download" /\ proc[p].res = "OK"
    /\ \E k \in Kinds : \E r \in rows[k] :
          /\ MatchingVersions(k, r) = {}
          /\ r.download_count = 2
    /\ \E k \in Kinds : \E r \in rows[k] :
          /\ MatchingVersions(k, r) # {}
          /\ r.download_count >= 1

\* C10: with one request at a time, an item rated once with s has average s
\* and count 1; an item rated with s1 then s2 has average (s1 + s2) / 2 and
\* count 2, which is the same for s2 then s1; and every successful Rate sets
\* the average to (old_average * old_count + score) / (old_count + 1) and
\* adds one to the count.  Averages are exact fractions <<num, den>>.
C10_RunningAverage ==
    /\ [](\A k \in Kinds : \A r \in rows[k] :
             LET scores == HistOf(r.created_at).scores
             IN  /\ r.rating_count = Len(scores)
                 /\ Len(scores) = 1 => r.rating = <<scores[1], 1>>
                 /\ Len(scores) = 2
                    => r.rating[1] * 2 = (scores[1] + scores[2]) * r.rating[2])
    /\ [][\A p \in Procs :
            (proc[p].pc = "rate_commit" /\ proc'[p].pc = "done" /\ proc'[p].res = "OK")
            => \E r \in rows[proc[p].kind], r2 \in rows'[proc[p].kind] :
                  /\ r.id = proc[p].id
                  /\ r2.id = proc[p].id
                  /\ r2.rating_count = r.rating_count + 1
                  /\ r2.rating[1] * r.rating[2] * (r.rating_count + 1)
                     = (r.rating[1] * r.rating_count + proc[p].score * r.rating[2])
                       * r2.rating[2]]_vars

\* a second Rate has just succeeded: the item was rated 2 then 5, or 5 then
\* 2, and its average is 7/2
C10_Witness ==
    /\ \E p \in Procs :
          proc[p].pc = "done" /\ proc[p].op = "rate" /\ proc[p].res = "OK"
    /\ \E k \in Kinds : \E r \in rows[k] :
          /\ r.rating_count = 2
          /\ r.rating = <<7, 2>>

\* C11: with one request at a time, every artifact's average lies in [0, 5]
\* and its rating count is the number of Rate calls that succeeded on it; a
\* Rate call whose score lies outside [0, 5] is refused at once and changes
\* no row.
C11_RatingInRange ==
    /\ [](\A k \in Kinds : \A r \in rows[k] :
             /\ r.rating[2] > 0
             /\ 0 <= r.rating[1]
             /\ r.rating[1] <= 5 * r.rating[2]
             /\ r.rating_count = Len(HistOf(r.created_at).scores))
    /\ [][\A p \in Procs :
            (/\ proc[p].pc = "idle"
             /\ proc'[p].op = "rate"
             /\ (proc'[p].score < 0 \/ proc'[p].score > 5))
            => /\ proc'[p].pc = "done"
               /\ proc'[p].res \in {"Unauthenticated", "Unprocessable"}
               /\ rows' = rows]_vars

\* an authenticated Rate with score 6 was refused on an item rated twice
C11_Witness ==
    \E p \in Procs :
        /\ proc[p].pc = "done"
        /\ proc[p].op = "rate"
        /\ proc[p].score = 6
        /\ proc[p].caller # NoUser
        /\ proc[p].res = "Unprocessable"
        /\ \E k \in Kinds : \E r \in rows[k] :
              r.rating_count = 2 /\ r.rating = <<5, 1>>

\* the credential is a correctly signed, unexpired session token whose
\* subject is the id of an existing User
ValidSession(token) ==
    /\ token.kind = "jwt"
    /\ token.sig = "good"
    /\ token.exp >= Seconds(now)
    /\ \E u \in users : Str(u.id) = token.sub

\* C12: a request that presents a correctly signed, unexpired session token
\* whose subject is the id of an existing User is answered at once with that
\* User: the identity provider is not contacted and no User row is created
\* or changed.
C12_SessionTokenFirst ==
    [][\A p \in Procs :
          (/\ areq[p].pc = "idle"
           /\ areq'[p].op = "auth"
           /\ ValidSession(areq'[p].token))
          => /\ areq'[p].pc = "done"
             /\ areq'[p].status = 200
             /\ Str(areq'[p].user) = areq'[p].token.sub
             /\ \E u \in users : u.id = areq'[p].user
             /\ areq'[p].calls = 0
             /\ users' = users]_vars

\* a request with a valid session token was answered with its User
C12_Witness ==
    \E p \in Procs :
        /\ areq[p].pc = "done"
        /\ areq[p].op = "auth"
        /\ areq[p].token.kind = "jwt"
        /\ areq[p].status = 200
        /\ areq[p].user = 1
        /\ areq[p].calls = 0

\* C13: when the session-token path yields no User the credential goes to
\* the identity provider; a refusal, or a profile without id, ends the
\* request with Unauthenticated (401) and no User row created or changed;
\* a profile with an id ends it with the User reconciled from that profile.
C13_UpstreamFallback ==
    [][\A p \in Procs :
          /\ (/\ areq[p].pc = "idle"
              /\ areq'[p].op = "auth"
              /\ areq'[p].token # NoToken
              /\ ~ValidSession(areq'[p].token))
             => areq'[p].pc = "fetch"
          /\ (/\ areq[p].pc = "fetch"
              /\ areq[p].op = "auth"
              /\ areq'[p].pc # "fetch"
              /\ areq'[p].resp.net
              /\ \/ areq'[p].resp.status # 200
                 \/ areq'[p].resp.json /\ areq'[p].resp.id = 0)
             => /\ areq'[p].pc = "done"
                /\ areq'[p].status = 401
                /\ users' = users
          /\ (/\ areq[p].pc = "upsert_commit"
              /\ areq[p].op = "auth"
              /\ areq'[p].pc # "upsert_commit")
             => /\ areq'[p].pc = "done"
                /\ areq'[p].status = 200
                /\ \E u \in users' :
                      /\ u.id = areq'[p].user
                      /\ u.github_id = Str(areq[p].resp.id)]_vars

\* C14: a network failure or timeout of a call to the identity provider, in
\* the code exchange or in the profile fetch, ends the request with
\* UpstreamUnavailable (502).
C14_NetworkFailureClassified ==
    [][\A p \in Procs :
          (/\ areq[p].pc \in {"exchange", "fetch"}
           /\ areq'[p].calls = areq[p].calls + 1
           /\ ~areq'[p].resp.net)
          => /\ areq'[p].pc = "done"
             /\ areq'[p].status = 502]_vars

\* C15: the code exchange answers a parseable response that reports an
\* error (a status other than 200, or an error field) with
\* OAuthExchangeFailed (400), a parseable response without access token with
\* OAuthExchangeFailed (400), and a body that does not parse with
\* UpstreamUnavailable (502); it hands on a token only when the response
\* carries a non-blank one, and then that token.
C15_ExchangeClassification ==
    [][\A p \in Procs :
          (/\ areq[p].pc = "exchange"
           /\ areq'[p].calls = areq[p].calls + 1
           /\ areq'[p].resp.net)
          => LET response == areq'[p].resp
             IN  /\ (response.json /\ (response.status # 200 \/ response.err))
                    => (areq'[p].pc = "done" /\ areq'[p].status = 400)
                 /\ (response.json /\ response.token = Missing)
                    => (areq'[p].pc = "done" /\ areq'[p].status = 400)
                 /\ ~response.json
                    => (areq'[p].pc = "done" /\ areq'[p].status = 502)
                 /\ areq'[p].pc = "fetch"
                    => /\ response.token # Missing
                       /\ Strip(response.token, WhitespaceChars) # <<>>
                       /\ areq'[p].token.sub = Strip(response.token, WhitespaceChars)]_vars

\* the profile's login is missing or blank
BlankLogin(github_user) ==
    github_user.login = Missing \/ Strip(github_user.login, WhitespaceChars) = <<>>

\* C16: a reconcile of a profile whose login is missing or blank creates,
\* for an upstream id without User, a User with handle "github-id-<id>";
\* for an upstream id with a User it leaves the handle as it is and sets the
\* avatar URL to the profile's (the empty string if absent); and no User
\* ever has a blank handle.
C16_ReconcileHandle ==
    /\ [](\A u \in users : Strip(u.username, WhitespaceChars) # <<>>)
    /\ [][\A p \in Procs :
            (areq[p].pc = "upsert_commit" /\ areq'[p].pc # "upsert_commit"
             /\ BlankLogin(areq[p].resp))
            => LET github_user == areq[p].resp
                   hits == {u \in users : u.github_id = Str(github_user.id)}
               IN  /\ hits = {}
                      => \E u \in users' \ users :
                            /\ u.github_id = Str(github_user.id)
                            /\ u.username = <<"github-id-">> \o Str(github_user.id)
                   /\ \A u \in hits : \E u2 \in users' :
                         /\ u2.id = u.id
                         /\ u2.username = u.username
                         /\ u2.avatar_url = IF github_user.avatar = Missing
                                            THEN <<>> ELSE github_user.avatar]_vars

\* C17: however the reconciles of two workers interleave, no two User rows
\* share an upstream id or a local id, a User row keeps its upstream id and
\* its local id, and a reconcile that succeeds for upstream id X returns
\* the User whose upstream id is X.
C17_OneUserPerIdentity ==
    /\ [](\A u1, u2 \in users :
             (u1.github_id = u2.github_id \/ u1.id = u2.id) => u1 = u2)
    /\ [][/\ \A u \in users : \E u2 \in users' :
                u2.id = u.id /\ u2.github_id = u.github_id
          /\ \A p \in Procs :
                (areq[p].pc = "upsert_commit" /\ areq'[p].status = 200)
                => \E u \in users' :
                      /\ u.id = areq'[p].user
                      /\ u.github_id = Str(areq[p].resp.id)]_vars

\* two first-time reconciles for one upstream id overlapped: both found no
\* User, one succeeded and the other failed at its commit
C17_Witness ==
    /\ areq["p1"].pc = "done" /\ areq["p2"].pc = "done"
    /\ areq["p1"].found = 0 /\ areq["p2"].found = 0
    /\ areq["p1"].resp.id = areq["p2"].resp.id
    /\ areq["p1"].status = 200
    /\ areq["p2"].status = 500
    /\ \E u \in users : u.github_id = Str(areq["p1"].resp.id)

\* the instant a session token of the wallet expires: issue time plus the
\* configured duration
ExpiryInstant(w) == w.at + ExpireTicks

\* C18, as claimed: a session token issued for user u verifies as u at every
\* time before its expiry instant and fails to verify at every time after it.
C18_VerifyUntilExpiry ==
    \A w \in wallet :
        /\ now < ExpiryInstant(w)
           => /\ decode_access_token(w.token, now).ok
              /\ decode_access_token(w.token, now).sub = Str(w.user)
        /\ now > ExpiryInstant(w)
           => ~decode_access_token(w.token, now).ok

\* C18, amended: a session token issued for user u verifies as u at every
\* time before its expiry instant, and a request presenting it then is
\* answered with u without the provider being asked; it fails to verify at
\* every time one second or more after the expiry instant.
C18_VerifyUntilExpirySecond ==
    /\ [](\A w \in wallet :
             /\ now < ExpiryInstant(w)
                => /\ decode_access_token(w.token, now).ok
                   /\ decode_access_token(w.token, now).sub = Str(w.user)
             /\ now >= ExpiryInstant(w) + TicksPerSecond
                => ~decode_access_token(w.token, now).ok)
    /\ [][\A p \in Procs : \A w \in wallet :
            (areq[p].pc = "idle" /\ areq'[p].op = "auth" /\ areq'[p].token = w.token)
            => /\ now < ExpiryInstant(w)
                  => (areq'[p].status = 200 /\ areq'[p].user = w.user
                      /\ areq'[p].calls = 0)
               /\ now >= ExpiryInstant(w) + TicksPerSecond
                  => areq'[p].pc = "fetch"]_vars

\* a token was refused a second after its expiry instant, having been
\* accepted in the last tick before it
C18_Witness ==
    \E p \in Procs : \E w \in wallet :
        /\ areq[p].op = "auth"
        /\ areq[p].token = w.token
        /\ areq[p].pc = "fetch"
        /\ now >= ExpiryInstant(w) + TicksPerSecond
        /\ decode_access_token(w.token, ExpiryInstant(w) - 1).ok

\* C19: every artifact row has at least one version row, and the version
\* label and the description of its newest version row (by creation time)
\* are those of the artifact row.
C19_CurrentVersionMirrors ==
    \A k \in Kinds : \A r \in rows[k] :
        LET vs == VersionsOf(k, r.id)
        IN  /\ vs # {}
            /\ \A v \in vs :
                  (\A w \in vs : w.created_at <= v.created_at)
                  => (v.version = r.version /\ v.description = r.description)

\* two artifacts with different descriptions are in place, each with its
\* version row
C19_Witness ==
    \E k1, k2 \in Kinds : \E r1 \in rows[k1], r2 \in rows[k2] :
        /\ r1.description = <<"d">>
        /\ r2.description = <<"e">>
        /\ VersionsOf(k1, r1.id) # {}
        /\ VersionsOf(k2, r2.id) # {}

\* C20: when the manifest has a category that is not blank, infer_category
\* returns it, trimmed, whatever the kind, the optimization_class hint, the
\* name and the description are.
C20_ExplicitCategoryWins ==
    (/\ cat.pc = "returned"
     /\ cat.manifest.category # Missing
     /\ Strip(cat.manifest.category, WhitespaceChars) # <<>>)
    => cat.category = Strip(cat.manifest.category, WhitespaceChars)

\* a problem named after a routing keyword, with a QUBO hint, was given the
\* category its manifest names, trimmed
C20_Witness ==
    /\ cat.pc = "returned"
    /\ cat.item_type = "problem"
    /\ cat.name = <<"TSP">>
    /\ cat.manifest.optimization_class = <<"QUBO">>
    /\ cat.manifest.category = <<" ", "Mine", " ">>
    /\ cat.category = <<"Mine">>

\* the rule table of the kind the call is for
RulesOf(item_type) ==
    IF item_type = "problem" THEN PROBLEM_CATEGORY_RULES ELSE SOLVER_CATEGORY_RULES

\* the rules whose keyword occurs in the lower-cased "name description"
MatchingRules(call) ==
    LET text == call.name \o <<" ">> \o call.description
    IN  {i \in 1..Len(RulesOf(call.item_type)) :
            \E j \in 1..Len(text) : LowerWord(text[j]) = RulesOf(call.item_type)[i][1]}

\* the manifest names no category and gives no recognised class hint
NoManifestHelp(call) ==
    /\ \/ call.manifest.category = Missing
       \/ Strip(call.manifest.category, WhitespaceChars) = <<>>
    /\ \/ call.manifest.optimization_class = Missing
       \/ Lower(Strip(call.manifest.optimization_class, WhitespaceChars))
            \notin {<<"milp">>, <<"mip">>, <<"qubo">>, <<"qp">>}

\* C21: a call of infer_category without explicit category and without
\* recognised class hint returns the category of the first rule, in table
\* order, of the kind's table whose keyword occurs in the lower-cased text,
\* and "General" when none occurs; the result is never empty.
C21_FirstMatchOrDefault ==
    (cat.pc = "returned" /\ NoManifestHelp(cat))
    => /\ cat.category # <<>>
       /\ cat.category # Missing
       /\ IF MatchingRules(cat) = {}
          THEN cat.category = <<"General">>
          ELSE \E i \in MatchingRules(cat) :
                  /\ \A j \in MatchingRules(cat) : i <= j
                  /\ cat.category = <<RulesOf(cat.item_type)[i][2]>>

\* the problem "tsp-routing-v2", without manifest, was filed under Routing
C21_Witness ==
    /\ cat.pc = "returned"
    /\ cat.item_type = "problem"
    /\ cat.name = <<"tsp", "-", "routing", "-", "v2">>
    /\ cat.description = <<>>
    /\ cat.manifest = [category |-> Missing, optimization_class |-> Missing]
    /\ cat.category = <<"Routing">>


\* C22: a search that is answered returns, for its page and page size, the
\* identifiers of exactly the matching artifacts whose rank by creation time
\* descending lies in [(page-1)*page_size, page*page_size), in that order, and
\* its total is the number of all matching artifacts; every page >= 1 with a
\* page size in 1..100 is answered.
C22_ListSlice ==
    \A p \in Procs :
        (proc[p].pc = "done" /\ proc[p].op = "list") =>
            LET r == proc[p]
                M == Filtered(r.kind, r.q, r.category)
                lo == (r.page - 1) * r.page_size
                hi == r.page * r.page_size
                Rank(x) == Cardinality({y \in M : y.created_at > x.created_at})
            IN  /\ (r.page >= 1 /\ r.page_size \in 1..100) <=> r.res = "OK"
                /\ r.res = "OK" =>
                      /\ r.total = Cardinality(M)
                      /\ \A i \in 1..Len(r.items) :
                            \E x \in M : x.id = r.items[i] /\ Rank(x) = lo + i - 1
                      /\ \A x \in M :
                            (Rank(x) >= lo /\ Rank(x) < hi)
                               => \E i \in 1..Len(r.items) : r.items[i] = x.id

\* a second page that holds the older of the two matches of a text and a
\* category filter among three artifacts
C22_Witness ==
    /\ proc["p1"].pc = "done" /\ proc["p1"].op = "list" /\ proc["p1"].res = "OK"
    /\ proc["p1"].q # Missing
    /\ normalize_optional_text(proc["p1"].category) # Missing
    /\ proc["p1"].page = 2 /\ proc["p1"].page_size = 1
    /\ proc["p1"].total = 2 /\ Len(proc["p1"].items) = 1
    /\ Cardinality(rows[proc["p1"].kind]) = 3


\* the newest version record of the artifact's current version names a file
\* that is on disk
RecordBlobExists(kind, item) ==
    \E v \in MatchingVersions(kind, item) :
        /\ \A w \in MatchingVersions(kind, item) : w.created_at <= v.created_at
        /\ \E f \in fs : f.path = v.file_path

\* the file at the path recomputed from owner, name and version is on disk
FallbackBlobExists(kind, item) ==
    \E f \in fs : f.path = build_archive_path(kind, item.owner_id, item.name, item.version)

\* C23: with one request at a time, a Download is served (and then succeeds)
\* exactly when the artifact exists and the path of its matching version
\* record, or else the deterministic fallback path, is on disk; otherwise it
\* ends with NotFound and leaves every row, the download counters included,
\* unchanged.
C23_DownloadIffBlob ==
    [][\A p \in Procs :
          /\ (proc[p].pc = "idle" /\ proc'[p].op = "download") =>
                LET kind == proc'[p].kind
                    available ==
                        \E r \in rows[kind] :
                            /\ r.id = proc'[p].id
                            /\ RecordBlobExists(kind, r) \/ FallbackBlobExists(kind, r)
                IN  /\ available <=> proc'[p].pc = "dl_commit"
                    /\ ~available => /\ proc'[p].pc = "done"
                                     /\ proc'[p].res = "NotFound"
                                     /\ rows' = rows
          /\ (proc[p].pc = "dl_commit" /\ proc'[p].pc = "done") => proc'[p].res = "OK"
      ]_vars

\* an artifact without version record was served from its fallback path;
\* the cleanup of a failed upload to the same path then removed the blob and
\* the next Download of the artifact ended with NotFound
C23_Witness ==
    /\ proc["p1"].pc = "done" /\ proc["p1"].op = "download"
    /\ proc["p1"].res = "NotFound" /\ proc["p1"].at = "archive"
    /\ \E r \in rows[proc["p1"].kind] :
          /\ r.id = proc["p1"].id
          /\ r.download_count = 1
          /\ MatchingVersions(proc["p1"].kind, r) = {}


\* C24: whenever no request is under way, the download counter of every
\* artifact equals the number of Downloads that succeeded for it, also when
\* the Downloads ran concurrently.
C24_NoLostIncrement ==
    Quiescent =>
        \A k \in Kinds : \A r \in rows[k] :
            r.download_count = HistOf(r.created_at).served

\* sum of the scores of a sequence
RECURSIVE Sum(_)
Sum(scores) == IF scores = <<>> THEN 0 ELSE Head(scores) + Sum(Tail(scores))

\* C25: whenever no request is under way, the rating count of every item
\* equals the number of Rate calls that succeeded for it and its average is
\* the mean of their scores, also when the calls ran concurrently.
C25_NoLostRating ==
    Quiescent =>
        \A k \in Kinds : \A r \in rows[k] :
            LET scores == HistOf(r.created_at).scores
            IN  /\ r.rating_count = Len(scores)
                /\ r.rating[1] * Len(scores) = Sum(scores) * r.rating[2]


\* the spellings of the two kinds
ProblemSpellings == {<<"problem">>, <<"problems">>, <<"benchmark">>, <<"benchmarks">>}
SolverSpellings == {<<"solver">>, <<"solvers">>}

\* the kind string of a request without regard to case and surrounding blanks
Spelled(item_type) == Strip(Lower(item_type), WhitespaceChars)

\* what a Rate request of an authenticated caller does with its kind string:
\* a spelling of a kind is never a BadRequest and a lookup goes to that
\* kind's table; any other string ends it with BadRequest, no artifact touched
KindResolved(p) ==
    LET t == Spelled(proc'[p].item_type)
        looked_up == proc'[p].pc = "rate_commit" \/ proc'[p].res = "NotFound"
    IN  /\ t \in ProblemSpellings
           => /\ proc'[p].res # "BadRequest"
              /\ looked_up => proc'[p].kind = "problems"
        /\ t \in SolverSpellings
           => /\ proc'[p].res # "BadRequest"
              /\ looked_up => proc'[p].kind = "solvers"
        /\ t \notin ProblemSpellings \cup SolverSpellings
           => /\ proc'[p].pc = "done" /\ proc'[p].res = "BadRequest"
              /\ rows' = rows

BlankCategory(c) == c = Missing \/ Strip(c, WhitespaceChars) = <<>>

\* C27: a run of the backfill leaves no artifact of either kind with a null
\* or blank category, keeps every row that had a non-blank category as it
\* was, changes nothing but the category of the others, and changes nothing
\* at all when no artifact is uncategorized, which is the case after a run.
C27_BackfillIdempotent ==
    [][\A p \in Procs :
          (proc[p].pc = "idle" /\ proc'[p].op = "backfill") =>
              /\ \A k \in Kinds : \A r \in rows'[k] : ~BlankCategory(r.category)
              /\ \A k \in Kinds : \A r \in rows[k] :
                    /\ ~BlankCategory(r.category) => r \in rows'[k]
                    /\ \E r2 \in rows'[k] : r2 = [r EXCEPT !.category = r2.category]
              /\ \A k \in Kinds : Cardinality(rows'[k]) = Cardinality(rows[k])
              /\ (\A k \in Kinds : \A r \in rows[k] : ~BlankCategory(r.category))
                    => rows' = rows]_vars

\* a second run has just found nothing to change: the old problem has the
\* category inferred from its description, and an upload made with a
\* category of its own, whose text would infer another one, has kept it
C27_Witness ==
    /\ proc["p1"].pc = "done" /\ proc["p1"].op = "backfill" /\ proc["p1"].n = 0
    /\ \E r \in rows["problems"] : r.created_at = 0 /\ r.category = <<"Routing">>
    /\ \E r \in rows["problems"] : r.created_at > 0 /\ r.category = <<"Mine">>


\* the rows of a kind that carry the triple of a request
SameTriple(kind, owner, name, version) ==
    {r \in rows[kind] : r.owner_id = owner /\ r.name = name /\ r.version = version}

\* every path a kind's rows or version rows lead to
PathsOf(kind) ==
    {v.file_path : v \in versions[kind]}
        \cup {build_archive_path(kind, r.owner_id, r.name, r.version) : r \in rows[kind]}

\* the rows, version rows and blobs of a kind
HoldingsOf(kind, rs, vs, files) ==
    <<rs[kind], vs[kind], {f \in files : f.path \in PathsOf(kind)}>>

\* C28: a Create ends with Conflict only if its own kind holds the triple;
\* no path of a problem is a path of a solver; and every step of a request
\* on one kind leaves the rows, version rows and blobs of the other kind as
\* they were.
C28_IndependentNamespaces ==
    /\ [](PathsOf("problems") \cap PathsOf("solvers") = {})
    /\ [][\A p \in Procs :
            /\ (proc[p].pc = "idle" /\ proc'[p].op = "create"
                                    /\ proc'[p].res = "Conflict")
                  => SameTriple(proc'[p].kind, proc'[p].caller, proc'[p].name,
                                proc'[p].version) # {}
            /\ \A k \in Kinds, other \in Kinds :
                  (k # other /\ proc'[p] # proc[p]
                             /\ (proc[p].kind = k \/ proc'[p].kind = k))
                     => HoldingsOf(other, rows', versions', fs')
                        = HoldingsOf(other, rows, versions, fs)]_vars

\* the solver with the owner, name and version of a living problem has just
\* been deleted; the problem's blob is on disk and the problem was created
\* second, rated and downloaded
C28_Witness ==
    /\ proc["p1"].pc = "done" /\ proc["p1"].op = "delete"
    /\ proc["p1"].res = "NoContent" /\ proc["p1"].kind = "solvers"
    /\ \E r \in rows["problems"] :
          /\ r.owner_id = "u1" /\ r.name = <<"a">> /\ r.version = <<"1">>
          /\ r.created_at = 2
          /\ r.download_count = 1 /\ r.rating_count = 1
          /\ Exists(build_archive_path("problems", r.owner_id, r.name, r.version))


\* C29: the cleanup of a Create that fails removes no blob that a committed
\* version row references: every such blob that was on disk before the
\* failing step is on disk after it.
C29_CleanupSparesCommitted ==
    [][\A p \in Procs :
          (proc[p].pc \in {"persist", "flush", "commit"}
              /\ proc'[p].pc = "done" /\ proc'[p].res = "InternalError")
             => \A v \in AllVersions :
                   Exists(v.file_path) => \E f \in fs' : f.path = v.file_path]_vars


\* C30: when a Delete has ended with the failure of its database step, the
\* artifact is still there and the blob of each of its version rows is on
\* disk.
C30_DeleteAllOrNothing ==
    \A p \in Procs :
        (proc[p].pc = "done" /\ proc[p].op = "delete" /\ proc[p].res = "InternalError")
           => /\ ById(proc[p].kind, proc[p].id) # {}
              /\ \A v \in VersionsOf(proc[p].kind, proc[p].id) : Exists(v.file_path)


\* the blobs of an artifact: those of its version rows, or the one at the
\* deterministic path when it has no version row
BlobPathsOf(kind, r) ==
    IF VersionsOf(kind, r.id) = {}
    THEN {build_archive_path(kind, r.owner_id, r.name, r.version)}
    ELSE {v.file_path : v \in VersionsOf(kind, r.id)}

\* the files of the artifacts of all kinds other than the one with this id
BlobsOfOthers(kind, id) ==
    {f \in fs : \E k \in Kinds : \E r \in rows[k] :
                   (k # kind \/ r.id # id) /\ f.path \in BlobPathsOf(k, r)}

\* a Delete that goes through leaves the other artifacts as they were: its
\* first step removes none of their blobs, its second step removes the row
\* and the version rows of its artifact and nothing else
OthersUntouched(p) ==
    /\ (proc[p].pc = "idle" /\ proc'[p].op = "delete" /\ proc'[p].pc = "del_commit")
          => /\ BlobsOfOthers(proc'[p].kind, proc'[p].id) \subseteq fs'
             /\ rows' = rows /\ versions' = versions
    /\ (proc[p].pc = "del_commit" /\ proc'[p].res = "NoContent")
          => /\ fs' = fs
             /\ \A k \in Kinds :
                   /\ rows'[k] = {r \in rows[k] : k # proc[p].kind \/ r.id # proc[p].id}
                   /\ versions'[k] = {v \in versions[k] :
                                         k # proc[p].kind \/ v.artifact_id # proc[p].id}

\* the directory cleanup of a Delete removes only directories that hold no
\* file and no directory, and creates none
OnlyEmptyDirectoriesRemoved(p) ==
    (proc[p].pc = "del_commit" /\ proc'[p].res = "NoContent")
       => /\ dirs' \subseteq dirs
          /\ \A d \in dirs \ dirs' :
                /\ \A f \in fs' : ~(Len(f.path) > Len(d) /\ SubSeq(f.path, 1, Len(d)) = d)
                /\ \A e \in dirs' : ~(Len(e) > Len(d) /\ SubSeq(e, 1, Len(d)) = d)

\* C31: a successful Delete leaves every other artifact's row, version rows
\* and blobs as they were; the root storage directories always exist; and
\* the directory cleanup removes only empty directories.
C31_DeleteFrame ==
    /\ [](Roots \subseteq dirs)
    /\ [][\A p \in Procs : OthersUntouched(p) /\ OnlyEmptyDirectoriesRemoved(p)]_vars


\* C32: with one request at a time, the reconcile of a profile that carries
\* an id never fails: its commit leaves a User with that upstream id and the
\* request does not end with an error, whatever handles the Users hold.
C32_HandleNeverBlocks ==
    [][\A p \in Procs :
          (areq[p].pc = "upsert_commit" /\ areq'[p].pc # "upsert_commit")
             => /\ areq'[p].status # 500
                /\ \E u \in users' : u.github_id = Str(areq[p].resp.id)]_vars

====
